---- MODULE Spec2Model ----
(***************************************************************************)
(* A model of the level-3 operation front-ends of BLIS                     *)
(* (frame/3/bli_l3_oapi_ex.c) and of the structured micro-panel packer     *)
(* (frame/1m/packm/bli_packm_struc_cxk.c).                                 *)
(*                                                                         *)
(* Matrix elements are Gaussian integers <<re, im>>, so every product,     *)
(* sum and scaling is exact and "bit-identical" is plain equality.         *)
(***************************************************************************)
EXTENDS Integers, Naturals, Sequences, FiniteSets, TLC

\* ------------------------------------------------------------------------
\* Bounds of the model
\* ------------------------------------------------------------------------

\* Largest matrix extent (m, n, k range over 0..MaxDim).
MaxDim == 2

\* Buffers are filled by Gen from a seed in 0..MaxSeed.
MaxSeed == 1

\* ------------------------------------------------------------------------
\* Scalars
\* ------------------------------------------------------------------------

BLIS_ZERO == <<0, 0>>

BLIS_ONE == <<1, 0>>

Add(x, y) == <<x[1] + y[1], x[2] + y[2]>>

Sub(x, y) == <<x[1] - y[1], x[2] - y[2]>>

Mul(x, y) == <<x[1] * y[1] - x[2] * y[2], x[1] * y[2] + x[2] * y[1]>>

Conj(x) == <<x[1], 0 - x[2]>>

CondConj(cj, x) == IF cj THEN Conj(x) ELSE x

bli_obj_equals(x, y) == x = y

\* ------------------------------------------------------------------------
\* Objects (obj_t).  A descriptor views a buffer of the memory `mem`:
\* element (i,j) of the stored matrix lives at offset i*rs + j*cs.
\* ------------------------------------------------------------------------

NoObj ==
  [buf |-> "none", m |-> 0, n |-> 0, rs |-> 0, cs |-> 0, trans |-> FALSE,
   conj |-> FALSE, struc |-> "gen", uplo |-> "dense", scalar |-> BLIS_ONE,
   schema |-> "NOT_PACKED"]

\* bli_obj_create followed by the caller's structure/transposition setters.
Obj(buf, m, n, rowst, trans, cj, struc, uplo) ==
  [buf |-> buf, m |-> m, n |-> n,
   rs |-> IF rowst THEN (IF n > 1 THEN n ELSE 1) ELSE 1,
   cs |-> IF rowst THEN 1 ELSE (IF m > 1 THEN m ELSE 1),
   trans |-> trans, conj |-> cj, struc |-> struc, uplo |-> uplo,
   scalar |-> BLIS_ONE, schema |-> "NOT_PACKED"]

bli_obj_has_zero_dim(o) == o.m = 0 \/ o.n = 0

bli_obj_length_after_trans(o) == IF o.trans THEN o.n ELSE o.m

bli_obj_width_after_trans(o) == IF o.trans THEN o.m ELSE o.n

bli_obj_is_row_stored(o) == o.cs = 1

bli_obj_is_col_stored(o) == o.rs = 1

bli_obj_toggle_trans(o) == [o EXCEPT !.trans = ~o.trans]

bli_obj_toggle_conj(o) == [o EXCEPT !.conj = ~o.conj]

bli_obj_set_onlytrans_notrans(o) == [o EXCEPT !.trans = FALSE]

ToggleUplo(u) == IF u = "lower" THEN "upper" ELSE IF u = "upper" THEN "lower" ELSE u

\* Swap dimensions and strides and flip the stored triangle; the
\* transposition bit is left alone.
bli_obj_induce_trans(o) ==
  [o EXCEPT !.m = o.n, !.n = o.m, !.rs = o.cs, !.cs = o.rs,
            !.uplo = ToggleUplo(o.uplo)]

bli_obj_alias_to(o) == o

bli_obj_alias_and_reset_origin(o) == o

bli_obj_scalar_attach(cj, s, o) == [o EXCEPT !.scalar = CondConj(cj, s)]

bli_obj_set_pack_schema(s, o) == [o EXCEPT !.schema = s]

bli_toggle_side(s) == IF s = "L" THEN "R" ELSE "L"

\* ------------------------------------------------------------------------
\* Memory and element access
\* ------------------------------------------------------------------------

\* A total read: an offset outside the buffer reads as zero.
Get(buf, off) == IF off \in DOMAIN buf THEN buf[off] ELSE BLIS_ZERO

Stored(mm, o, i, j) == Get(mm[o.buf], i * o.rs + j * o.cs)

InStored(o, i, j) ==
  \/ o.uplo = "dense"
  \/ o.uplo = "lower" /\ i >= j
  \/ o.uplo = "upper" /\ i <= j

\* The element (i,j) of the matrix the descriptor denotes before its
\* transposition and conjugation bits are applied: the unstored triangle of
\* a triangular matrix is zero, that of a symmetric or Hermitian matrix is
\* the reflection of the stored one, and the diagonal of a Hermitian matrix
\* is real.
Struct(mm, o, i, j) ==
  IF o.struc = "gen" \/ o.uplo = "dense" THEN Stored(mm, o, i, j)
  ELSE IF o.struc = "tri"
       THEN (IF InStored(o, i, j) THEN Stored(mm, o, i, j) ELSE BLIS_ZERO)
  ELSE IF o.struc = "symm"
       THEN (IF InStored(o, i, j) THEN Stored(mm, o, i, j) ELSE Stored(mm, o, j, i))
  ELSE IF i = j THEN <<Stored(mm, o, i, j)[1], 0>>
  ELSE IF InStored(o, i, j) THEN Stored(mm, o, i, j)
  ELSE Conj(Stored(mm, o, j, i))

\* The element (i,j) of op(A): transposition and conjugation bits applied.
Elem(mm, o, i, j) ==
  CondConj(o.conj, IF o.trans THEN Struct(mm, o, j, i) ELSE Struct(mm, o, i, j))

\* ------------------------------------------------------------------------
\* The inputs of one call: the operation, the caller's operands and the
\* configuration of the build and of the process.
\* ------------------------------------------------------------------------

Dims == 0..MaxDim

Seeds == 0..MaxSeed

Alphas == {BLIS_ZERO, <<1, 1>>}

AlphasReal == {BLIS_ZERO, <<2, 0>>}

Betas == {BLIS_ONE, <<2, 0>>}

SideOps == {"hemm", "symm", "trmm3", "trmm", "trsm"}

ComposedOps == {"herk", "syrk", "her2k", "syr2k"}

BetaOps == {"gemm", "gemmt", "hemm", "symm", "trmm3", "herk", "syrk", "her2k", "syr2k"}

SquareCOps == {"gemmt", "herk", "syrk", "her2k", "syr2k"}

\* The operations whose output is B (they take no C and no beta).
InPlaceOps == {"trmm", "trsm"}

Ops == BetaOps \cup InPlaceOps

\* The fields an operation does not read are pinned to one value.
InputsOf(op) ==
  [op : {op},
   side : IF op \in SideOps THEN {"L", "R"} ELSE {"L"},
   errchk : BOOLEAN,
   skew : {0, 1},
   alpha : IF op = "herk" THEN AlphasReal ELSE Alphas,
   beta : IF op \in BetaOps THEN Betas ELSE {BLIS_ZERO},
   m : Dims,
   n : IF op \in SquareCOps THEN {0} ELSE Dims,
   k : IF op \in SideOps THEN {0} ELSE Dims,
   transa : IF op \in {"gemm", "gemmt", "trmm3", "trmm", "trsm"} THEN BOOLEAN ELSE {FALSE},
   transb : IF op \in {"gemm", "gemmt"} THEN BOOLEAN ELSE {FALSE},
   conja : IF op \in {"trmm", "trsm"} THEN BOOLEAN ELSE {FALSE},
   uplo : IF op = "gemm" THEN {"dense"} ELSE {"lower", "upper"},
   crow : BOOLEAN,
   prefrows : BOOLEAN,
   disright : IF op \in {"hemm", "symm", "trmm3", "trmm"} THEN BOOLEAN ELSE {FALSE},
   supok : IF op = "gemm" THEN BOOLEAN ELSE {FALSE},
   seed : Seeds]

\* With error checking disabled the caller guarantees the preconditions.
Inputs == {x \in UNION {InputsOf(op) : op \in Ops} : x.errchk \/ x.skew = 0}

\* Extents of the output matrix.
OutM(x) == x.m

OutN(x) == IF x.op \in SquareCOps THEN x.m ELSE x.n

\* Order of the structured operand of a side operation.
OrdA(x) == IF x.side = "L" THEN x.m ELSE x.n

StrucA(x) ==
  IF x.op = "hemm" THEN "herm" ELSE IF x.op = "symm" THEN "symm"
  ELSE IF x.op \in {"trmm3", "trmm", "trsm"} THEN "tri" ELSE "gen"

StrucC(x) ==
  IF x.op \in {"herk", "her2k"} THEN "herm"
  ELSE IF x.op \in {"syrk", "syr2k"} THEN "symm"
  ELSE IF x.op = "gemmt" THEN "tri" ELSE "gen"

\* The caller's A.  A nonzero skew makes the operands non-conforming (or a
\* structured A non-square).
CallerA(x) ==
  IF x.op \in SideOps
  THEN Obj("a", OrdA(x) + x.skew, OrdA(x), FALSE, x.transa, x.conja, StrucA(x), x.uplo)
  ELSE IF x.transa
       THEN Obj("a", x.k, x.m + x.skew, FALSE, TRUE, FALSE, "gen", "dense")
       ELSE Obj("a", x.m + x.skew, x.k, FALSE, FALSE, FALSE, "gen", "dense")

CallerB(x) ==
  IF x.op \in {"herk", "syrk"} THEN NoObj
  ELSE IF x.op \in {"her2k", "syr2k"}
       THEN Obj("b", x.m, x.k, FALSE, FALSE, FALSE, "gen", "dense")
  ELSE IF x.op \in InPlaceOps
       THEN Obj("b", x.m, x.n, x.crow, FALSE, FALSE, "gen", "dense")
  ELSE IF x.op \in SideOps
       THEN Obj("b", x.m, x.n, FALSE, FALSE, FALSE, "gen", "dense")
  ELSE IF x.transb
       THEN Obj("b", OutN(x), x.k, FALSE, TRUE, FALSE, "gen", "dense")
       ELSE Obj("b", x.k, OutN(x), FALSE, FALSE, FALSE, "gen", "dense")

CallerC(x) ==
  IF x.op \in InPlaceOps THEN NoObj
  ELSE Obj("c", OutM(x), OutN(x), x.crow, FALSE, FALSE, StrucC(x), x.uplo)

\* The runtime the caller passes in.
CallerRntm == [ways |-> "unset"]

\* The objects the parameters of the entry point point to.
CallerArgs(x) ==
  [alpha |-> x.alpha, beta |-> x.beta, a |-> CallerA(x), b |-> CallerB(x),
   c |-> CallerC(x), rntm |-> CallerRntm]

\* The value stored at an offset of a buffer.
Gen(seed, salt, off) ==
  <<((2 * off + seed + salt) % 4) - 1, ((off + 2 * seed + salt) % 3) - 1>>

\* The diagonal of the triangular operand of a solve is invertible: its
\* entries are units of the Gaussian integers.
GenUnit(seed, off) == IF (seed + off) % 2 = 0 THEN <<1, 0>> ELSE <<0, 1>>

BufOf(x, o, salt) ==
  [off \in 0..(o.m * o.n - 1) |->
     IF x.op = "trsm" /\ salt = 0 /\ o.m = o.n /\ off % (o.m + 1) = 0
     THEN GenUnit(x.seed, off) ELSE Gen(x.seed, salt, off)]

CallerMem(x) ==
  [a |-> BufOf(x, CallerA(x), 0), b |-> BufOf(x, CallerB(x), 1),
   c |-> BufOf(x, CallerC(x), 2), none |-> BufOf(x, NoObj, 3)]

\* The buffer an operation writes.
OutBuf(x) == IF x.op \in InPlaceOps THEN "b" ELSE "c"

OutObj(x) == IF x.op \in InPlaceOps THEN CallerB(x) ELSE CallerC(x)

\* ------------------------------------------------------------------------
\* The collaborators of the front-ends: argument checks, scalm, setid, the
\* small path and the thread decorator, by their contracts.
\* ------------------------------------------------------------------------

\* Write f[<<i,j>>] to every element (i,j) of the stored region of o.
UpdateObj(mm, o, f) ==
  [mm EXCEPT ![o.buf] =
     [off \in DOMAIN mm[o.buf] |->
        LET hits == {ij \in (0..(o.m - 1)) \X (0..(o.n - 1)) :
                       /\ ij[1] * o.rs + ij[2] * o.cs = off
                       /\ InStored(o, ij[1], ij[2])}
        IN IF hits = {} THEN mm[o.buf][off] ELSE f[CHOOSE ij \in hits : TRUE]]]

Index(o) == (0..(o.m - 1)) \X (0..(o.n - 1))

\* x := beta * x on the stored region of x; scaling by one writes nothing.
bli_scalm(beta, o, mm) ==
  IF bli_obj_equals(beta, BLIS_ONE) THEN mm
  ELSE UpdateObj(mm, o, [ij \in Index(o) |-> Mul(beta, Stored(mm, o, ij[1], ij[2]))])

\* Set the imaginary part of every diagonal element of x to zero.
bli_setid(o, mm) ==
  [mm EXCEPT ![o.buf] =
     [off \in DOMAIN mm[o.buf] |->
        IF \E i \in 0..(o.m - 1) : i < o.n /\ i * o.rs + i * o.cs = off
        THEN <<mm[o.buf][off][1], 0>> ELSE mm[o.buf][off]]]

RECURSIVE DotTo(_, _, _, _, _, _)
\* sum over p < k of op(A)(i,p) * op(B)(p,j)
DotTo(mm, a, b, i, j, k) ==
  IF k = 0 THEN BLIS_ZERO
  ELSE Add(DotTo(mm, a, b, i, j, k - 1),
           Mul(Elem(mm, a, i, k - 1), Elem(mm, b, k - 1, j)))

\* C := alpha * op(A) * op(B) + beta * C on the stored region of C, with
\* the scalars attached to the operands folded in.
L3Product(alpha, a, b, beta, c, mm) ==
  LET ae == Mul(alpha, Mul(a.scalar, b.scalar))
      be == Mul(beta, c.scalar)
      k  == bli_obj_width_after_trans(a)
  IN UpdateObj(mm, c,
       [ij \in Index(c) |->
          Add(Mul(ae, DotTo(mm, a, b, ij[1], ij[2], k)),
              Mul(be, Stored(mm, c, ij[1], ij[2])))])

RECURSIVE SolveLower(_, _, _, _, _, _)
RECURSIVE SumLower(_, _, _, _, _, _, _)
\* sum over p < q of A(i,p) * X(p,j)
SumLower(mm, a, b, ae, i, j, q) ==
  IF q = 0 THEN BLIS_ZERO
  ELSE Add(SumLower(mm, a, b, ae, i, j, q - 1),
           Mul(Elem(mm, a, i, q - 1), SolveLower(mm, a, b, ae, q - 1, j)))

\* Forward substitution; the diagonal entries are units, so dividing by one
\* is multiplying by its conjugate.
SolveLower(mm, a, b, ae, i, j) ==
  Mul(Sub(Mul(ae, Elem(mm, b, i, j)), SumLower(mm, a, b, ae, i, j, i)),
      Conj(Elem(mm, a, i, i)))

RECURSIVE SolveUpper(_, _, _, _, _, _)
RECURSIVE SumUpper(_, _, _, _, _, _, _)
\* sum over q <= p < m of A(i,p) * X(p,j)
SumUpper(mm, a, b, ae, i, j, q) ==
  IF q >= a.m THEN BLIS_ZERO
  ELSE Add(SumUpper(mm, a, b, ae, i, j, q + 1),
           Mul(Elem(mm, a, i, q), SolveUpper(mm, a, b, ae, q, j)))

\* Backward substitution.
SolveUpper(mm, a, b, ae, i, j) ==
  Mul(Sub(Mul(ae, Elem(mm, b, i, j)), SumUpper(mm, a, b, ae, i, j, i + 1)),
      Conj(Elem(mm, a, i, i)))

\* C := X with tri(A) * X = alpha * B.
L3Solve(alpha, a, b, c, mm) ==
  LET ae == Mul(alpha, Mul(a.scalar, b.scalar))
  IN UpdateObj(mm, c,
       [ij \in Index(c) |->
          IF a.uplo = "upper" THEN SolveUpper(mm, a, b, ae, ij[1], ij[2])
          ELSE SolveLower(mm, a, b, ae, ij[1], ij[2])])

\* What the workers of the thread decorator leave in memory on return.
bli_l3_thread_decorator(family, alpha, a, b, beta, c, mm) ==
  IF family = "trsm" THEN L3Solve(alpha, a, b, c, mm)
  ELSE L3Product(alpha, a, b, beta, c, mm)

\* The small/unpacked handler: it either computes C and reports success,
\* or touches nothing and reports failure.
bli_gemmsup(ok, alpha, a, b, beta, c, mm) ==
  IF ok THEN L3Product(alpha, a, b, beta, c, mm) ELSE mm

\* The argument checks: conformity of the dimensions and squareness of a
\* structured operand.
IsSquare(o) == o.m = o.n

CheckPasses(op, side, a, b, c) ==
  LET am == bli_obj_length_after_trans(a)
      an == bli_obj_width_after_trans(a)
      bm == bli_obj_length_after_trans(b)
      bn == bli_obj_width_after_trans(b)
  IN IF op \in {"gemm", "gemmt"}
     THEN am = c.m /\ an = bm /\ bn = c.n /\ (op = "gemmt" => IsSquare(c))
     ELSE IF op \in {"herk", "syrk"} THEN am = c.m /\ IsSquare(c)
     ELSE IF op \in {"her2k", "syr2k"} THEN am = c.m /\ bm = c.m /\ an = bn /\ IsSquare(c)
     ELSE IF op \in {"trmm", "trsm"}
          THEN IsSquare(a) /\ (IF side = "L" THEN an = b.m ELSE b.n = am)
     ELSE /\ IsSquare(a) /\ b.m = c.m /\ b.n = c.n
          /\ (IF side = "L" THEN an = b.m ELSE b.n = am)

\* Whether the micro-kernel's output preference differs from the storage
\* of the object.
bli_cntx_dislikes_storage_of(o, prefrows) ==
  ~ \/ (bli_obj_is_row_stored(o) /\ prefrows)
    \/ (bli_obj_is_col_stored(o) /\ ~prefrows)

\* ------------------------------------------------------------------------
\* The front-ends: what each entry point does between the trivial check and
\* the creation of the control tree.  c0 holds the objects the entry
\* point's parameters point to, x the configuration.  The result holds the
\* same objects as the entry point leaves them (cur) and its locals (loc).
\* ------------------------------------------------------------------------

NoLoc ==
  [side |-> "L", alpha |-> BLIS_ZERO, beta |-> BLIS_ZERO, a |-> NoObj, b |-> NoObj,
   c |-> NoObj, rntm |-> [ways |-> "none"], schema_a |-> "NOT_PACKED",
   schema_b |-> "NOT_PACKED", family |-> "none", cntl |-> "none"]

\* bli_l3_set_schemas, then the schemas are read into locals and reset.
Schemas(l) ==
  [l EXCEPT !.schema_a = "PACKED_ROW_PANELS", !.schema_b = "PACKED_COL_PANELS",
            !.a = bli_obj_set_pack_schema("NOT_PACKED", l.a),
            !.b = bli_obj_set_pack_schema("NOT_PACKED", l.b)]

\* rntm_l = *rntm, then bli_rntm_set_ways_for_op on the copy.
LocalRntm(r) == [r EXCEPT !.ways = "set"]

\* Swap A and B and induce a transposition on all three operands.
TransposeOperation(l) ==
  [l EXCEPT !.a = bli_obj_induce_trans(l.b), !.b = bli_obj_induce_trans(l.a),
            !.c = bli_obj_induce_trans(l.c)]

\* Toggle the side and induce a transposition on all three operands.
CastToOtherSide(l) ==
  [l EXCEPT !.side = bli_toggle_side(l.side), !.a = bli_obj_induce_trans(l.a),
            !.b = bli_obj_induce_trans(l.b), !.c = bli_obj_induce_trans(l.c)]

SwapAB(l) == [l EXCEPT !.a = l.b, !.b = l.a]

\* The mutant of NormalizeTransA: the transposition is induced and the bit
\* is left set.
NormalizeTransA_keeps_bit(l) ==
  IF l.a.trans THEN [l EXCEPT !.a = bli_obj_induce_trans(l.a)] ELSE l

\* A transposed triangular A has its transposition induced and the bit
\* cleared.
NormalizeTransA(l) ==
  IF l.a.trans
  THEN [l EXCEPT !.a = bli_obj_set_onlytrans_notrans(bli_obj_induce_trans(l.a))]
  ELSE l

Aliases(c0, cobj, family) ==
  [NoLoc EXCEPT !.side = c0.side, !.alpha = c0.alpha, !.beta = c0.beta,
                !.a = bli_obj_alias_and_reset_origin(c0.a),
                !.b = bli_obj_alias_and_reset_origin(c0.b),
                !.c = bli_obj_alias_and_reset_origin(cobj),
                !.rntm = LocalRntm(c0.rntm), !.family = family]

\* The mutant of gemm_orient: the transpositions are induced without
\* swapping A and B.
gemm_orient_no_swap(l, x) ==
  IF bli_cntx_dislikes_storage_of(l.c, x.prefrows)
  THEN [l EXCEPT !.a = bli_obj_induce_trans(l.a), !.b = bli_obj_induce_trans(l.b),
                 !.c = bli_obj_induce_trans(l.c)]
  ELSE l

\* The mutant of gemm_orient: A and B are swapped and transposed while C
\* is left as it is.
gemm_orient_keeps_c(l, x) ==
  IF bli_cntx_dislikes_storage_of(l.c, x.prefrows)
  THEN [l EXCEPT !.a = bli_obj_induce_trans(l.b), !.b = bli_obj_induce_trans(l.a)]
  ELSE l

gemm_orient(l, x) ==
  IF bli_cntx_dislikes_storage_of(l.c, x.prefrows) THEN TransposeOperation(l) ELSE l

\* The mutant of gemm_attach: alpha is attached and passed on as well.
gemm_attach_keeps_alpha(l) ==
  [l EXCEPT !.b = bli_obj_scalar_attach(FALSE, l.alpha, l.b),
            !.c = bli_obj_scalar_attach(FALSE, l.beta, l.c),
            !.beta = BLIS_ONE]

\* Attach alpha to B and beta to C and pass unit scalars on.
gemm_attach(l) ==
  [l EXCEPT !.b = bli_obj_scalar_attach(FALSE, l.alpha, l.b),
            !.c = bli_obj_scalar_attach(FALSE, l.beta, l.c),
            !.alpha = BLIS_ONE, !.beta = BLIS_ONE]

\* The mutant of gemm_front: the transformations are applied to the
\* caller's objects instead of to aliases.
gemm_front_in_place(c0, x) ==
  LET l == Schemas(gemm_attach(gemm_orient(Aliases(c0, c0.c, "gemm"), x)))
  IN [cur |-> [c0 EXCEPT !.a = l.a, !.b = l.b, !.c = l.c], loc |-> l]

gemm_front(c0, x) ==
  [cur |-> c0,
   loc |-> Schemas(gemm_attach(gemm_orient(Aliases(c0, c0.c, "gemm"), x)))]

\* The mutant of gemmt_front: the alias of C is handed on as a dense
\* matrix.
gemmt_front_dense_c(c0, x) ==
  LET l == Schemas(gemm_orient(Aliases(c0, c0.c, "gemmt"), x))
  IN [cur |-> c0, loc |-> [l EXCEPT !.c.uplo = "dense"]]

gemmt_front(c0, x) ==
  [cur |-> c0, loc |-> Schemas(gemm_orient(Aliases(c0, c0.c, "gemmt"), x))]

\* Native right side of hemm: the transposed operation has side toggled,
\* A conjugated and B, C transposed; a right-side A is then swapped with B.
hemm_native(l, x) ==
  LET t == IF bli_cntx_dislikes_storage_of(l.c, x.prefrows)
           THEN [l EXCEPT !.side = bli_toggle_side(l.side),
                          !.a = bli_obj_toggle_conj(l.a),
                          !.b = bli_obj_induce_trans(l.b),
                          !.c = bli_obj_induce_trans(l.c)]
           ELSE l
  IN IF t.side = "R" THEN SwapAB(t) ELSE t

symm_native(l, x) ==
  LET t == IF bli_cntx_dislikes_storage_of(l.c, x.prefrows)
           THEN [l EXCEPT !.side = bli_toggle_side(l.side),
                          !.b = bli_obj_induce_trans(l.b),
                          !.c = bli_obj_induce_trans(l.c)]
           ELSE l
  IN IF t.side = "R" THEN SwapAB(t) ELSE t

trmm_native(l, x) ==
  LET t == IF bli_cntx_dislikes_storage_of(l.c, x.prefrows)
           THEN CastToOtherSide(l) ELSE l
  IN IF t.side = "R" THEN SwapAB(t) ELSE t

\* The mutant of cast_right_to_left: C is not transposed with A and B.
cast_without_c(l) ==
  IF l.side = "R"
  THEN [l EXCEPT !.side = bli_toggle_side(l.side), !.a = bli_obj_induce_trans(l.a),
                 !.b = bli_obj_induce_trans(l.b)]
  ELSE l

\* The right side cast in terms of the left side.
cast_right_to_left(l) == IF l.side = "R" THEN CastToOtherSide(l) ELSE l

hemm_front(c0, x) ==
  LET l == Aliases(c0, c0.c, "gemm")
  IN [cur |-> c0,
      loc |-> Schemas(IF x.disright THEN cast_right_to_left(l) ELSE hemm_native(l, x))]

symm_front(c0, x) ==
  LET l == Aliases(c0, c0.c, "gemm")
  IN [cur |-> c0,
      loc |-> Schemas(IF x.disright THEN cast_right_to_left(l) ELSE symm_native(l, x))]

trmm3_front(c0, x) ==
  LET l == NormalizeTransA(Aliases(c0, c0.c, "trmm"))
  IN [cur |-> c0,
      loc |-> Schemas(IF x.disright THEN cast_right_to_left(l) ELSE trmm_native(l, x))]

\* trmm: C is an alias of B and the decorator is given beta = 0.
trmm_front(c0, x) ==
  LET l == NormalizeTransA([Aliases(c0, c0.b, "trmm") EXCEPT !.beta = BLIS_ZERO])
  IN [cur |-> c0,
      loc |-> Schemas(IF x.disright THEN cast_right_to_left(l) ELSE trmm_native(l, x))]

\* trsm: C is an alias of B, the right side is always cast to the left, and
\* the decorator is given alpha as its beta.
trsm_front(c0, x) ==
  LET l == NormalizeTransA([Aliases(c0, c0.b, "trsm") EXCEPT !.beta = c0.alpha])
  IN [cur |-> c0, loc |-> Schemas(cast_right_to_left(l))]

Front(c0, x) ==
  IF c0.op = "gemm" THEN gemm_front(c0, x)
  ELSE IF c0.op = "gemmt" THEN gemmt_front(c0, x)
  ELSE IF c0.op = "hemm" THEN hemm_front(c0, x)
  ELSE IF c0.op = "symm" THEN symm_front(c0, x)
  ELSE IF c0.op = "trmm3" THEN trmm3_front(c0, x)
  ELSE IF c0.op = "trmm" THEN trmm_front(c0, x)
  ELSE trsm_front(c0, x)

\* ------------------------------------------------------------------------
\* The steps shared by the entry points
\* ------------------------------------------------------------------------

\* The error reporter: a failed check is reported and the call goes no
\* further.
bli_check_error_code(op, pass) ==
  IF pass THEN [log |-> <<>>, abort |-> FALSE]
  ELSE [log |-> <<<<"report", op>>>>, abort |-> TRUE]

\* The mutant of l3_check: the check function is invoked whether or not
\* error checking is enabled.
l3_check_always(c0, x) ==
  LET e == bli_check_error_code(c0.op, CheckPasses(c0.op, c0.side, c0.a, c0.b, c0.c))
  IN [log |-> <<<<"init_once", c0.op>>, <<"check", c0.op>>>> \o e.log,
      abort |-> e.abort]

\* bli_init_once, then the operands are checked when error checking is
\* enabled.
l3_check(c0, x) ==
  IF x.errchk
  THEN LET e == bli_check_error_code(c0.op, CheckPasses(c0.op, c0.side, c0.a, c0.b, c0.c))
       IN [log |-> <<<<"init_once", c0.op>>, <<"check", c0.op>>>> \o e.log,
           abort |-> e.abort]
  ELSE [log |-> <<<<"init_once", c0.op>>>>, abort |-> FALSE]

\* The mutant of bli_l3_return_early_if_trivial: the zero extent of C is
\* not tested first.
trivial_no_zero_dim_test(alpha, a, b, beta, c, mm) ==
  IF \/ bli_obj_equals(alpha, BLIS_ZERO)
     \/ bli_obj_has_zero_dim(a)
     \/ bli_obj_has_zero_dim(b)
  THEN [status |-> "SUCCESS", scaled |-> TRUE, mem |-> bli_scalm(beta, c, mm)]
  ELSE [status |-> "FAILURE", scaled |-> FALSE, mem |-> mm]

\* The mutant of bli_l3_return_early_if_trivial: the trivial case returns
\* without scaling C.
trivial_no_scal(alpha, a, b, beta, c, mm) ==
  IF \/ bli_obj_has_zero_dim(c)
     \/ bli_obj_equals(alpha, BLIS_ZERO)
     \/ bli_obj_has_zero_dim(a)
     \/ bli_obj_has_zero_dim(b)
  THEN [status |-> "SUCCESS", scaled |-> FALSE, mem |-> mm]
  ELSE [status |-> "FAILURE", scaled |-> FALSE, mem |-> mm]

bli_l3_return_early_if_trivial(alpha, a, b, beta, c, mm) ==
  IF bli_obj_has_zero_dim(c)
  THEN [status |-> "SUCCESS", scaled |-> FALSE, mem |-> mm]
  ELSE IF \/ bli_obj_equals(alpha, BLIS_ZERO)
          \/ bli_obj_has_zero_dim(a)
          \/ bli_obj_has_zero_dim(b)
       THEN [status |-> "SUCCESS", scaled |-> TRUE, mem |-> bli_scalm(beta, c, mm)]
       ELSE [status |-> "FAILURE", scaled |-> FALSE, mem |-> mm]

\* The mutant of l3_trivial: trmm and trsm pass one as beta.
l3_trivial_beta_one(c0, mm) ==
  IF c0.op \in InPlaceOps
  THEN bli_l3_return_early_if_trivial(c0.alpha, c0.a, c0.b, BLIS_ONE, c0.b, mm)
  ELSE bli_l3_return_early_if_trivial(c0.alpha, c0.a, c0.b, c0.beta, c0.c, mm)

\* The trivial check as each entry point calls it: trmm and trsm pass B as
\* the output and zero as beta.
l3_trivial(c0, mm) ==
  IF c0.op \in InPlaceOps
  THEN bli_l3_return_early_if_trivial(c0.alpha, c0.a, c0.b, BLIS_ZERO, c0.b, mm)
  ELSE bli_l3_return_early_if_trivial(c0.alpha, c0.a, c0.b, c0.beta, c0.c, mm)

\* The mutant of l3_after_trivial: the entry point goes on after the
\* trivial case has been handled.
l3_after_trivial_goes_on(status, op, ret) ==
  IF op = "gemm" THEN "sup" ELSE "front"

\* The mutant of l3_after_trivial: every entry point tries the small path.
l3_after_trivial_all_sup(status, op, ret) ==
  IF status = "SUCCESS" THEN ret ELSE "sup"

\* The entry point returns when the trivial case has been handled, and
\* goes on otherwise: gemm to its small path, the others to the front-end.
l3_after_trivial(status, op, ret) ==
  IF status = "SUCCESS" THEN ret
  ELSE IF op = "gemm" THEN "sup" ELSE "front"

TrivialBeta(c0) == IF c0.op \in InPlaceOps THEN BLIS_ZERO ELSE c0.beta

\* The side handed to bli_trsm_cntl_create, and the tree bli_gemm_cntl_create
\* builds for the other operations.
l3_cntl_create(c0, l) ==
  IF l.family = "trsm"
  THEN (IF c0.a.struc = "tri" THEN "trsm_l" ELSE "trsm_r")
  ELSE "gemm"

\* ------------------------------------------------------------------------
\* The composed operations
\* ------------------------------------------------------------------------

Params(op, side, alpha, a, b, beta, c, rntm) ==
  [op |-> op, side |-> side, alpha |-> alpha, beta |-> beta, a |-> a, b |-> b,
   c |-> c, rntm |-> rntm]

\* The mutant of GemmtCall: the second gemmt call is given the caller's
\* beta too.
gemmt_call_beta_twice(o, n) ==
  LET ah == bli_obj_toggle_conj(bli_obj_toggle_trans(bli_obj_alias_to(o.a)))
      bh == bli_obj_toggle_conj(bli_obj_toggle_trans(bli_obj_alias_to(o.b)))
      at == bli_obj_toggle_trans(bli_obj_alias_to(o.a))
      bt == bli_obj_toggle_trans(bli_obj_alias_to(o.b))
      alphah == Conj(o.alpha)
  IN IF o.op = "herk" THEN Params("gemmt", "L", o.alpha, o.a, ah, o.beta, o.c, o.rntm)
     ELSE IF o.op = "syrk" THEN Params("gemmt", "L", o.alpha, o.a, at, o.beta, o.c, o.rntm)
     ELSE IF o.op = "her2k"
          THEN (IF n = 1 THEN Params("gemmt", "L", o.alpha, o.a, bh, o.beta, o.c, o.rntm)
                ELSE Params("gemmt", "L", alphah, o.b, ah, o.beta, o.c, o.rntm))
     ELSE (IF n = 1 THEN Params("gemmt", "L", o.alpha, o.a, bt, o.beta, o.c, o.rntm)
           ELSE Params("gemmt", "L", o.alpha, o.b, at, o.beta, o.c, o.rntm))

\* The n-th gemmt call of a composed operation whose parameters are o.
GemmtCall(o, n) ==
  LET ah == bli_obj_toggle_conj(bli_obj_toggle_trans(bli_obj_alias_to(o.a)))
      bh == bli_obj_toggle_conj(bli_obj_toggle_trans(bli_obj_alias_to(o.b)))
      at == bli_obj_toggle_trans(bli_obj_alias_to(o.a))
      bt == bli_obj_toggle_trans(bli_obj_alias_to(o.b))
      alphah == Conj(o.alpha)
  IN IF o.op = "herk" THEN Params("gemmt", "L", o.alpha, o.a, ah, o.beta, o.c, o.rntm)
     ELSE IF o.op = "syrk" THEN Params("gemmt", "L", o.alpha, o.a, at, o.beta, o.c, o.rntm)
     ELSE IF o.op = "her2k"
          THEN (IF n = 1 THEN Params("gemmt", "L", o.alpha, o.a, bh, o.beta, o.c, o.rntm)
                ELSE Params("gemmt", "L", alphah, o.b, ah, BLIS_ONE, o.c, o.rntm))
     ELSE (IF n = 1 THEN Params("gemmt", "L", o.alpha, o.a, bt, o.beta, o.c, o.rntm)
           ELSE Params("gemmt", "L", o.alpha, o.b, at, BLIS_ONE, o.c, o.rntm))

\* Number of gemmt calls of a composed operation.
NCalls(op) == IF op \in {"her2k", "syr2k"} THEN 2 ELSE 1

\* The mutant of ZeroesDiag: her2k returns without zeroing the diagonal.
zeroes_diag_herk_only(op) == op = "herk"

\* Whether the operation zeroes the imaginary part of the diagonal of C
\* before it returns.
ZeroesDiag(op) == op \in {"herk", "her2k"}

\* Where control goes when a simple entry point returns.
Ret(x, kp) ==
  IF x.op \notin ComposedOps THEN [pc |-> "done", kpc |-> kp]
  ELSE IF kp < NCalls(x.op) THEN [pc |-> "kcall", kpc |-> kp + 1]
  ELSE IF ZeroesDiag(x.op) THEN [pc |-> "setid", kpc |-> kp]
  ELSE [pc |-> "done", kpc |-> kp]

\* ------------------------------------------------------------------------
\* The structured micro-panel packer (packm_struc_cxk)
\*
\* A micro-panel has a short axis of panel_dim elements (index ii) and a
\* long axis of panel_len elements (index jj).  An address of the source
\* is the pair of its offsets from c along incc and ldc; a pointer carries
\* whether incc and ldc have been swapped.  The standard pack schema is
\* modelled (no 1m, no real-domain widening, panel_bcast of one).
\* ------------------------------------------------------------------------

\* Largest panel_dim.
MaxPanelDim == 2

\* Largest panel_len.
MaxPanelLen == 3

\* Largest panel_dim_off and panel_len_off.
MaxPanelOff == 2

bli_min(a, b) == IF a < b THEN a ELSE b

bli_max(a, b) == IF a > b THEN a ELSE b

bli_is_general(struc) == struc = "gen"

bli_is_triangular(struc) == struc = "tri"

bli_is_hermitian(struc) == struc = "herm"

bli_is_upper(uplo) == uplo = "upper"

bli_is_lower(uplo) == uplo = "lower"

Kappas == {BLIS_ONE, <<0, 2>>}

PackInputs ==
  {x \in [strucc : {"gen", "tri", "symm", "herm"},
          diagc : {"nonunit", "unit"},
          uploc : {"lower", "upper"},
          conjc : BOOLEAN,
          invdiag : BOOLEAN,
          panel_dim : 1..MaxPanelDim,
          panel_len : 1..MaxPanelLen,
          panel_dim_max : 1..(MaxPanelDim + 1),
          panel_len_max : 1..(MaxPanelLen + 1),
          panel_dim_off : 0..MaxPanelOff,
          panel_len_off : 0..MaxPanelOff,
          kappa : Kappas] :
     /\ x.panel_dim_max \in {x.panel_dim, x.panel_dim + 1}
     /\ x.panel_len_max \in {x.panel_len, x.panel_len + 1}
     /\ (x.strucc # "tri") => x.diagc = "nonunit"
     /\ (x.strucc \in {"symm", "herm"}) => ~x.invdiag
     /\ (x.strucc = "gen") =>
          (x.uploc = "lower" /\ x.panel_dim_off = 0 /\ x.panel_len_off = 0)}

\* The element of the source matrix at the given indices along the short
\* and the long axis of the panels (every element, stored or not, holds a
\* nonzero value of its own).
PSrc(g) == <<g[1] + 1, g[2] + 1>>

\* The cells of the packed micro-panel.
PanelCells(x) == (0..(x.panel_dim_max - 1)) \X (0..(x.panel_len_max - 1))

PCell(val, by, inv) == [val |-> val, by |-> by, inv |-> inv]

Unset == PCell(BLIS_ZERO, "unset", FALSE)

EmptyPanel(x) == [q \in PanelCells(x) |-> Unset]

NoPack(x) == [pan |-> EmptyPanel(x), reads |-> {}, log |-> <<>>, kcalls |-> <<>>]

\* A pointer into the source: c + r * incc + l * ldc, and whether incc and
\* ldc are swapped.
CPtr(r, l) == [r |-> r, l |-> l, sw |-> FALSE]

\* The arguments of one kernel invocation: the kernel, the first column
\* of the panel it writes, the columns it packs and the columns it writes,
\* the conjugation and the source pointer it is given, and the
\* invert-diagonal flag (FALSE for the kernels that do not take one).
KCallRec(ker, j0, len, len_max, conjc, c, invdiag) ==
  [ker |-> ker, j0 |-> j0, len |-> len, len_max |-> len_max, conjc |-> conjc,
   c |-> c, invdiag |-> invdiag]

bli_reflect_to_stored_part(doff, c) ==
  IF c.sw THEN [r |-> c.r + doff, l |-> c.l - doff, sw |-> FALSE]
  ELSE [r |-> c.r - doff, l |-> c.l + doff, sw |-> TRUE]

\* The indices in the source matrix of element (ii, jj) read through c.
SrcAt(x, c, ii, jj) ==
  IF c.sw THEN <<x.panel_dim_off + c.r + jj, x.panel_len_off + c.l + ii>>
  ELSE <<x.panel_dim_off + c.r + ii, x.panel_len_off + c.l + jj>>

\* The general packing kernel: len columns of panel_dim elements from c to
\* the columns j0.. of the panel, scaled by kappa, padded with zeros to
\* panel_dim_max and len_max.
f_cxk(conjc, x, len, len_max, c, j0, st) ==
  [pan |->
     [q \in DOMAIN st.pan |->
        IF q[2] >= j0 /\ q[2] < j0 + len_max
        THEN IF q[1] < x.panel_dim /\ q[2] - j0 < len
             THEN PCell(Mul(x.kappa, CondConj(conjc, PSrc(SrcAt(x, c, q[1], q[2] - j0)))),
                        "cxk", FALSE)
             ELSE PCell(BLIS_ZERO, "pad", FALSE)
        ELSE st.pan[q]],
   reads |-> st.reads \cup
               {SrcAt(x, c, ii, jj) : ii \in 0..(x.panel_dim - 1), jj \in 0..(len - 1)},
   log |-> Append(st.log, <<"run", "cxk">>),
   kcalls |-> Append(st.kcalls, KCallRec("cxk", j0, len, len_max, conjc, c, FALSE))]

\* Zero fill of m by n cells from column j0.
set0s_mxn(m, n, j0, st) ==
  [pan |->
     [q \in DOMAIN st.pan |->
        IF q[1] < m /\ q[2] >= j0 /\ q[2] < j0 + n
        THEN PCell(BLIS_ZERO, "set0s", FALSE)
        ELSE st.pan[q]],
   reads |-> st.reads,
   log |-> Append(st.log, <<"run", "set0s">>),
   kcalls |-> Append(st.kcalls, KCallRec("set0s", j0, n, n, FALSE, CPtr(0, j0), FALSE))]

\* The diagonal packing kernel on the panel_dim by panel_dim block whose
\* diagonal is the matrix's: the stored triangle is packed, the unstored
\* one is zero (triangular) or the reflection of the stored one (symmetric,
\* Hermitian), the diagonal is kappa for a unit diagonal, is real for a
\* Hermitian matrix and is marked inverted under invdiag.
f_cxc(x, conjc, len_max, c, j0, st) ==
  LET isstored(ii, jj) == IF bli_is_upper(x.uploc) THEN jj >= ii ELSE jj <= ii
      from(ii, jj) == IF isstored(ii, jj) THEN <<ii, jj>> ELSE <<jj, ii>>
      val(ii, jj) ==
        LET f == from(ii, jj)
            v == PSrc(SrcAt(x, c, f[1], f[2]))
            w == IF bli_is_hermitian(x.strucc) /\ ~isstored(ii, jj) THEN Conj(v) ELSE v
            h == IF bli_is_hermitian(x.strucc) /\ ii = jj THEN <<w[1], 0>> ELSE w
        IN Mul(x.kappa, CondConj(conjc, h))
      cell(ii, jj) ==
        IF bli_is_triangular(x.strucc)
        THEN IF ii = jj
             THEN PCell(IF x.diagc = "unit" THEN x.kappa ELSE val(ii, jj), "cxc", x.invdiag)
             ELSE IF isstored(ii, jj) THEN PCell(val(ii, jj), "cxc", FALSE)
             ELSE PCell(BLIS_ZERO, "cxc", FALSE)
        ELSE PCell(val(ii, jj), "cxc", FALSE)
      used == {<<ii, jj>> \in (0..(x.panel_dim - 1)) \X (0..(x.panel_dim - 1)) :
                 /\ bli_is_triangular(x.strucc) => isstored(ii, jj)
                 /\ ~(bli_is_triangular(x.strucc) /\ x.diagc = "unit" /\ ii = jj)}
  IN [pan |->
        [q \in DOMAIN st.pan |->
           IF q[2] >= j0 /\ q[2] < j0 + len_max
           THEN IF q[1] < x.panel_dim /\ q[2] - j0 < x.panel_dim
                THEN cell(q[1], q[2] - j0)
                ELSE PCell(BLIS_ZERO, "pad", FALSE)
           ELSE st.pan[q]],
      reads |-> st.reads \cup
                  {SrcAt(x, c, from(u[1], u[2])[1], from(u[1], u[2])[2]) : u \in used},
      log |-> Append(st.log, <<"run", "cxc">>),
      kcalls |-> Append(st.kcalls,
                   KCallRec("cxc", j0, x.panel_dim, len_max, conjc, c, x.invdiag))]

\* The register blocksize of the short axis.
bli_packm_def_cntl_bmult_m_def(x) == x.panel_dim_max

diagoffc(x) == x.panel_dim_off - x.panel_len_off

\* The mutant of diag_intersects_short_end: only the near end is tested.
diag_intersects_near_end_only(x) ==
  (0 - x.panel_dim < diagoffc(x) /\ diagoffc(x) < 0)

\* The sanity check: the diagonal intersects the short end of the panel.
diag_intersects_short_end(x) ==
  \/ (0 - x.panel_dim < diagoffc(x) /\ diagoffc(x) < 0)
  \/ (x.panel_len - x.panel_dim < diagoffc(x) /\ diagoffc(x) < x.panel_len)

\* The general case: the whole panel by the general kernel.
pack_general(x, st) ==
  f_cxk(x.conjc, x, x.panel_len, x.panel_len_max, CPtr(0, 0), 0, st)

\* The mutant of p10_zero_fills: p10 is never zero-filled.
p10_never_zero_fills(x) == FALSE

p10_zero_fills(x) == bli_is_upper(x.uploc) /\ bli_is_triangular(x.strucc)

\* The mutant of pack_p10: p10 is never padded.
pack_p10_never_pads(x, st) ==
  IF 0 < diagoffc(x)
  THEN LET p10_len == bli_min(diagoffc(x), x.panel_len)
           p10_len_max == p10_len
           c10 == IF bli_is_upper(x.uploc)
                  THEN bli_reflect_to_stored_part(diagoffc(x), CPtr(0, 0))
                  ELSE CPtr(0, 0)
           conjc10 == IF bli_is_upper(x.uploc) /\ bli_is_hermitian(x.strucc)
                      THEN ~x.conjc ELSE x.conjc
       IN IF p10_zero_fills(x)
          THEN set0s_mxn(bli_packm_def_cntl_bmult_m_def(x), p10_len_max, 0, st)
          ELSE f_cxk(conjc10, x, p10_len, p10_len_max, c10, 0, st)
  ELSE st

pack_p10(x, st) ==
  IF 0 < diagoffc(x)
  THEN LET p10_len == bli_min(diagoffc(x), x.panel_len)
           p10_len_max == IF p10_len = x.panel_len THEN x.panel_len_max ELSE p10_len
           c10 == IF bli_is_upper(x.uploc)
                  THEN bli_reflect_to_stored_part(diagoffc(x), CPtr(0, 0))
                  ELSE CPtr(0, 0)
           conjc10 == IF bli_is_upper(x.uploc) /\ bli_is_hermitian(x.strucc)
                      THEN ~x.conjc ELSE x.conjc
       IN IF p10_zero_fills(x)
          THEN set0s_mxn(bli_packm_def_cntl_bmult_m_def(x), p10_len_max, 0, st)
          ELSE f_cxk(conjc10, x, p10_len, p10_len_max, c10, 0, st)
  ELSE st

\* The mutant of pack_p11: p11 is padded wherever it lies.
pack_p11_always_pads(x, st) ==
  IF 0 <= diagoffc(x) /\ diagoffc(x) + x.panel_dim <= x.panel_len
  THEN LET i == diagoffc(x)
           panel_len_pad == x.panel_len_max - x.panel_len
           p11_len_max == x.panel_dim + panel_len_pad
       IN f_cxc(x, x.conjc, p11_len_max, CPtr(0, i), i, st)
  ELSE st

pack_p11(x, st) ==
  IF 0 <= diagoffc(x) /\ diagoffc(x) + x.panel_dim <= x.panel_len
  THEN LET i == diagoffc(x)
           panel_len_pad == x.panel_len_max - x.panel_len
           p11_len_max == x.panel_dim + (IF diagoffc(x) + x.panel_dim = x.panel_len
                                         THEN panel_len_pad ELSE 0)
       IN f_cxc(x, x.conjc, p11_len_max, CPtr(0, i), i, st)
  ELSE st

p12_zero_fills(x) == bli_is_lower(x.uploc) /\ bli_is_triangular(x.strucc)

\* The mutant of pack_p12: the conjugation is never toggled.
pack_p12_keeps_conj(x, st) ==
  IF diagoffc(x) + x.panel_dim < x.panel_len
  THEN LET i == bli_max(0, diagoffc(x) + x.panel_dim)
           p12_len == x.panel_len - i
           panel_len_pad == x.panel_len_max - x.panel_len
           p12_len_max == p12_len + panel_len_pad
           c12 == IF bli_is_lower(x.uploc)
                  THEN bli_reflect_to_stored_part(diagoffc(x) - i, CPtr(0, i))
                  ELSE CPtr(0, i)
           conjc12 == x.conjc
       IN IF p12_zero_fills(x)
          THEN set0s_mxn(bli_packm_def_cntl_bmult_m_def(x), p12_len_max, i, st)
          ELSE f_cxk(conjc12, x, p12_len, p12_len_max, c12, i, st)
  ELSE st

pack_p12(x, st) ==
  IF diagoffc(x) + x.panel_dim < x.panel_len
  THEN LET i == bli_max(0, diagoffc(x) + x.panel_dim)
           p12_len == x.panel_len - i
           panel_len_pad == x.panel_len_max - x.panel_len
           p12_len_max == p12_len + panel_len_pad
           c12 == IF bli_is_lower(x.uploc)
                  THEN bli_reflect_to_stored_part(diagoffc(x) - i, CPtr(0, i))
                  ELSE CPtr(0, i)
           conjc12 == IF bli_is_lower(x.uploc) /\ bli_is_hermitian(x.strucc)
                      THEN ~x.conjc ELSE x.conjc
       IN IF p12_zero_fills(x)
          THEN set0s_mxn(bli_packm_def_cntl_bmult_m_def(x), p12_len_max, i, st)
          ELSE f_cxk(conjc12, x, p12_len, p12_len_max, c12, i, st)
  ELSE st

\* The inputs the variables of the packer hold while an entry point runs,
\* and those of the entry points while the packer runs.
IdlePack == CHOOSE x \in PackInputs : TRUE

IdleInput == CHOOSE x \in InputsOf("gemm") : TRUE

\* ------------------------------------------------------------------------
\* The control trees of trsm (bli_trsm_cntl.c)
\*
\* A tree is a function from the names of the nodes of trsm_cntl_t to the
\* nodes; a node lists its sub-nodes, in the order of their attachment,
\* each with its threading mask.
\* ------------------------------------------------------------------------

\* Largest register blocksize (MR, NR).
MaxReg == 3

\* Largest ratio of a cache blocksize to its register blocksize, and
\* largest KC.
MaxMult == 2

\* Largest number of blocks of the dimension of the triangle.
MaxBlocks == 3

BlkszKinds == {"MR", "NR", "MC", "KC", "NC"}

Blksz(def, max) == [def |-> def, max |-> max]

\* The blocksize tables: (def, max) per kind, all positive, max >= def, MC
\* a multiple of MR and NC a multiple of NR.
BlkszTables ==
  {[k \in BlkszKinds |->
      CASE k = "MR" -> Blksz(mr, mr)
        [] k = "NR" -> Blksz(nr, nr)
        [] k = "MC" -> Blksz(qm * mr, qm * mr + em)
        [] k = "KC" -> Blksz(kc, kc + ek)
        [] k = "NC" -> Blksz(qn * nr, qn * nr + en)] :
     mr \in 1..MaxReg, nr \in 1..MaxReg, qm \in 1..MaxMult, qn \in 1..MaxMult,
     kc \in 1..MaxMult, em \in 0..1, ek \in 0..1, en \in 0..1}

CntlInputs ==
  [a_tri : BOOLEAN,
   uplo : {"lower", "upper"},
   preinversion : BOOLEAN,
   blksz : BlkszTables,
   nblocks : 1..MaxBlocks]

\* The operands the constructors are given: the triangular one is A for
\* the left side and B for the right side.
CntlA(x) ==
  IF x.a_tri THEN Obj("a", 1, 1, FALSE, FALSE, FALSE, "tri", x.uplo)
  ELSE Obj("a", 1, 1, FALSE, FALSE, FALSE, "gen", "dense")

CntlB(x) ==
  IF x.a_tri THEN Obj("b", 1, 1, FALSE, FALSE, FALSE, "gen", "dense")
  ELSE Obj("b", 1, 1, FALSE, FALSE, FALSE, "tri", x.uplo)

bli_obj_is_triangular(o) == o.struc = "tri"

bli_obj_is_lower(o) == o.uplo = "lower"

\* One datatype is modelled: storage and target datatypes coincide.
bli_obj_dt(o) == "dcomplex"

bli_obj_target_dt(o) == "dcomplex"

bli_cntx_get_blksz_def_dt(kind, x) == x.blksz[kind].def

bli_cntx_get_blksz_max_dt(kind, x) == x.blksz[kind].max

bli_align_dim_to_mult(d, mult) == ((d + mult - 1) \div mult) * mult

\* KC is rounded up to a multiple of the register blocksize of the
\* triangular operand.
bli_l3_adjust_kc(a, x, pc) ==
  LET mnr == IF bli_obj_is_triangular(a)
             THEN bli_cntx_get_blksz_def_dt("MR", x)
             ELSE bli_cntx_get_blksz_def_dt("NR", x)
  IN [alg |-> bli_align_dim_to_mult(pc.alg, mnr),
      max |-> bli_align_dim_to_mult(pc.max, mnr)]

NoTree == [n \in {} |-> 0]

SetNode(t, name, node) ==
  [n \in DOMAIN t \cup {name} |-> IF n = name THEN node ELSE t[n]]

bli_part_cntl_init_node(var, alg, max, mult, dir, weighted, name, t) ==
  SetNode(t, name,
    [kind |-> "part", var |-> var, alg |-> alg, max |-> max, mult |-> mult,
     dir |-> dir, weighted |-> weighted, subs |-> <<>>])

bli_packm_def_cntl_init_node(var_func, dt_a, dt_p, bmid_m, bmid_n, does_invert_diag, rev_iter_if_upper, rev_iter_if_lower, pack_schema, pack_buf_type, name, t) ==
  SetNode(t, name,
    [kind |-> "packm", var_func |-> var_func, var |-> "bli_packm_blk_var1",
     ukr |-> IF dt_a = dt_p THEN "packm_struc_cxk" ELSE "packm_struc_cxk_md",
     bmid_m |-> bmid_m, bmid_n |-> bmid_n,
     does_invert_diag |-> does_invert_diag,
     rev_iter_if_upper |-> rev_iter_if_upper,
     rev_iter_if_lower |-> rev_iter_if_lower,
     pack_schema |-> pack_schema, pack_buf_type |-> pack_buf_type,
     subs |-> <<>>])

bli_cntl_attach_sub_node(mask, sub, parent, t) ==
  [t EXCEPT ![parent].subs = Append(@, [mask |-> mask, node |-> sub])]

\* The blocksizes and the direction the constructors read from the
\* context and the operands.
TrsmSizes(x, direct, ic_mult, jc_mult, a, b) ==
  LET pc == bli_l3_adjust_kc(a, x, [alg |-> bli_cntx_get_blksz_def_dt("KC", x),
                                    max |-> bli_cntx_get_blksz_max_dt("KC", x)])
  IN [dt_a |-> bli_obj_dt(a),
      dt_b |-> bli_obj_dt(b),
      dt_ap |-> bli_obj_target_dt(a),
      dt_bp |-> bli_obj_target_dt(b),
      direct |-> direct,
      ir_bsize |-> bli_cntx_get_blksz_def_dt("MR", x),
      jr_bsize |-> bli_cntx_get_blksz_def_dt("NR", x),
      ic_alg |-> bli_cntx_get_blksz_def_dt("MC", x),
      ic_max |-> bli_cntx_get_blksz_max_dt("MC", x),
      ic_mult |-> bli_cntx_get_blksz_def_dt(ic_mult, x),
      pc_alg |-> pc.alg,
      pc_max |-> pc.max,
      pc_mult |-> 1,
      jc_alg |-> bli_cntx_get_blksz_def_dt("NC", x),
      jc_max |-> bli_cntx_get_blksz_max_dt("NC", x),
      jc_mult |-> bli_cntx_get_blksz_def_dt(jc_mult, x)]

\* The mutant of trsm_l_direct: the directions are exchanged.
trsm_l_direct_exchanged(a) == IF bli_obj_is_lower(a) THEN "BWD" ELSE "FWD"

trsm_l_direct(a) == IF bli_obj_is_lower(a) THEN "FWD" ELSE "BWD"

trsm_r_direct(b) == IF bli_obj_is_lower(b) THEN "BWD" ELSE "FWD"

\* The mutant of trsm_l_sizes: the multiples of the right side are used.
trsm_l_sizes_as_right(a, b, x) == TrsmSizes(x, trsm_l_direct(a), "NR", "MR", a, b)

trsm_l_sizes(a, b, x) == TrsmSizes(x, trsm_l_direct(a), "MR", "NR", a, b)

trsm_r_sizes(a, b, x) == TrsmSizes(x, trsm_r_direct(b), "NR", "MR", a, b)

\* A macro-kernel branch: the IR and JR partitions and the pack node of A
\* above them.
MacroBranch(z, ir, jr, packa, mask, bmid_m, does_invert_diag, rev_iter_if_upper, t) ==
  LET t1 == bli_part_cntl_init_node("NULL", z.ir_bsize, z.ir_bsize, z.ir_bsize,
                                    "FWD", FALSE, ir, t)
      t2 == bli_part_cntl_init_node("bli_trsm_xx_ker_var2", z.jr_bsize, z.jr_bsize,
                                    z.jr_bsize, "FWD", FALSE, jr, t1)
      t3 == bli_cntl_attach_sub_node(mask, ir, jr, t2)
      t4 == bli_packm_def_cntl_init_node("bli_l3_packa", z.dt_a, z.dt_ap, bmid_m, "MR",
                                         does_invert_diag, rev_iter_if_upper, FALSE,
                                         "schema_a", "BLIS_BUFFER_FOR_A_BLOCK", packa, t3)
  IN bli_cntl_attach_sub_node({}, jr, packa, t4)

trsm_l_gemm_branch(z, t) ==
  MacroBranch(z, "part_ir_gemm", "part_jr_gemm", "pack_a_gemm", {"MR", "NR"},
              "MR", FALSE, TRUE, t)

trsm_l_trsm_branch(z, x, t) ==
  MacroBranch(z, "part_ir_trsm", "part_jr_trsm", "pack_a_trsm", {"MC", "KC", "NR"},
              "MR", x.preinversion, TRUE, t)

\* The mutant of trsm_l_part_ic: the gemm branch is threaded over NC again.
trsm_l_part_ic_nc_again(z, t) ==
  LET t1 == bli_part_cntl_init_node("bli_trsm_blk_var1", z.ic_alg, z.ic_max, z.ic_mult,
                                    z.direct, FALSE, "part_ic", t)
      t2 == bli_cntl_attach_sub_node({}, "pack_a_trsm", "part_ic", t1)
  IN bli_cntl_attach_sub_node({"NC", "MC", "KC"}, "pack_a_gemm", "part_ic", t2)

trsm_l_part_ic(z, t) ==
  LET t1 == bli_part_cntl_init_node("bli_trsm_blk_var1", z.ic_alg, z.ic_max, z.ic_mult,
                                    z.direct, FALSE, "part_ic", t)
      t2 == bli_cntl_attach_sub_node({}, "pack_a_trsm", "part_ic", t1)
  IN bli_cntl_attach_sub_node({"MC", "KC"}, "pack_a_gemm", "part_ic", t2)

\* The mutant of trsm_l_outer: B is packed outside the KC partition.
trsm_l_outer_packb_first(z, t) ==
  LET t1 == bli_packm_def_cntl_init_node("bli_l3_packb", z.dt_b, z.dt_bp, "NR", "MR",
                                         FALSE, FALSE, FALSE, "schema_b",
                                         "BLIS_BUFFER_FOR_B_PANEL", "pack_b", t)
      t2 == bli_part_cntl_init_node("bli_trsm_blk_var3", z.pc_alg, z.pc_max, z.pc_mult,
                                    z.direct, FALSE, "part_pc", t1)
      t3 == bli_cntl_attach_sub_node({}, "part_ic", "part_pc", t2)
      t4 == bli_cntl_attach_sub_node({}, "part_pc", "pack_b", t3)
      t5 == bli_part_cntl_init_node("bli_trsm_blk_var2", z.jc_alg, z.jc_max, z.jc_mult,
                                    "FWD", FALSE, "part_jc", t4)
  IN bli_cntl_attach_sub_node({"NC"}, "pack_b", "part_jc", t5)

\* The pack node of B and the KC and JC partitions above it.
trsm_l_outer(z, t) ==
  LET t1 == bli_packm_def_cntl_init_node("bli_l3_packb", z.dt_b, z.dt_bp, "NR", "MR",
                                         FALSE, FALSE, FALSE, "schema_b",
                                         "BLIS_BUFFER_FOR_B_PANEL", "pack_b", t)
      t2 == bli_cntl_attach_sub_node({}, "part_ic", "pack_b", t1)
      t3 == bli_part_cntl_init_node("bli_trsm_blk_var3", z.pc_alg, z.pc_max, z.pc_mult,
                                    z.direct, FALSE, "part_pc", t2)
      t4 == bli_cntl_attach_sub_node({}, "pack_b", "part_pc", t3)
      t5 == bli_part_cntl_init_node("bli_trsm_blk_var2", z.jc_alg, z.jc_max, z.jc_mult,
                                    "FWD", FALSE, "part_jc", t4)
  IN bli_cntl_attach_sub_node({"NC"}, "part_pc", "part_jc", t5)

bli_trsm_l_cntl_init(a, b, x) ==
  LET z == trsm_l_sizes(a, b, x)
  IN trsm_l_outer(z, trsm_l_part_ic(z,
       trsm_l_trsm_branch(z, x, trsm_l_gemm_branch(z, NoTree))))

trsm_r_trsm_branch(z, t) ==
  MacroBranch(z, "part_ir_trsm", "part_jr_trsm", "pack_a_trsm", {},
              "NR", FALSE, FALSE, t)

trsm_r_part_ic(z, t) ==
  LET t1 == bli_part_cntl_init_node("bli_trsm_blk_var1", z.ic_alg, z.ic_max, z.ic_mult,
                                    "FWD", FALSE, "part_ic", t)
  IN bli_cntl_attach_sub_node({"MC", "KC", "NC", "MR", "NR"}, "pack_a_trsm", "part_ic", t1)

\* The mutant of trsm_r_outer: B is packed in reverse when it is upper.
trsm_r_outer_rev_if_upper(z, t) ==
  LET t1 == bli_packm_def_cntl_init_node("bli_l3_packb", z.dt_b, z.dt_bp, "MR", "MR",
                                         TRUE, TRUE, FALSE, "schema_b",
                                         "BLIS_BUFFER_FOR_B_PANEL", "pack_b", t)
      t2 == bli_cntl_attach_sub_node({}, "part_ic", "pack_b", t1)
      t3 == bli_part_cntl_init_node("bli_trsm_blk_var3", z.pc_alg, z.pc_max, z.pc_mult,
                                    z.direct, FALSE, "part_pc", t2)
      t4 == bli_cntl_attach_sub_node({}, "pack_b", "part_pc", t3)
      t5 == bli_part_cntl_init_node("bli_trsm_blk_var2", z.jc_alg, z.jc_max, z.jc_mult,
                                    z.direct, FALSE, "part_jc", t4)
  IN bli_cntl_attach_sub_node({}, "part_pc", "part_jc", t5)

trsm_r_outer(z, t) ==
  LET t1 == bli_packm_def_cntl_init_node("bli_l3_packb", z.dt_b, z.dt_bp, "MR", "MR",
                                         TRUE, FALSE, TRUE, "schema_b",
                                         "BLIS_BUFFER_FOR_B_PANEL", "pack_b", t)
      t2 == bli_cntl_attach_sub_node({}, "part_ic", "pack_b", t1)
      t3 == bli_part_cntl_init_node("bli_trsm_blk_var3", z.pc_alg, z.pc_max, z.pc_mult,
                                    z.direct, FALSE, "part_pc", t2)
      t4 == bli_cntl_attach_sub_node({}, "pack_b", "part_pc", t3)
      t5 == bli_part_cntl_init_node("bli_trsm_blk_var2", z.jc_alg, z.jc_max, z.jc_mult,
                                    z.direct, FALSE, "part_jc", t4)
  IN bli_cntl_attach_sub_node({}, "part_pc", "part_jc", t5)

bli_trsm_r_cntl_init(a, b, x) ==
  LET z == trsm_r_sizes(a, b, x)
  IN trsm_r_outer(z, trsm_r_part_ic(z, trsm_r_trsm_branch(z, NoTree)))

bli_trsm_cntl_init(a, b, x) ==
  IF bli_obj_is_triangular(a)
  THEN bli_trsm_l_cntl_init(a, b, x)
  ELSE bli_trsm_r_cntl_init(a, b, x)

\* The blocks a partition visits, in order.
BlockOrder(dir, nb) == [q \in 1..nb |-> IF dir = "FWD" THEN q - 1 ELSE nb - q]

\* The partition that walks the dimension of the triangle: the IC
\* partition of the left side, the JC partition of the right side.
TrianglePart(x) == IF x.a_tri THEN "part_ic" ELSE "part_jc"

IdleCntl == CHOOSE x \in CntlInputs : TRUE

\* ------------------------------------------------------------------------
\* A pack node run by a thread group
\*
\* The workers of the group share the packed buffer. The panels of the
\* buffer are divided among the workers; each worker packs its panels,
\* waits at the barrier of the group, and then goes on to the sub-node,
\* which reads the buffer.
\* ------------------------------------------------------------------------

\* Largest number of workers of a thread group.
MaxWorkers == 3

\* Largest number of panels of a packed buffer.
MaxPanels == 3

ThreadInputs == [n_way : 1..MaxWorkers, panels : 1..MaxPanels]

Workers(x) == 0..(x.n_way - 1)

Panels(x) == 0..(x.panels - 1)

\* The panels a worker packs: the iterations are dealt round-robin.
bli_is_my_iter(it, tid, x) == it % x.n_way = tid

\* The panels of a worker not yet packed.
ToPack(tid, x, buf) == {it \in Panels(x) : bli_is_my_iter(it, tid, x) /\ buf[it] = 0}

\* The mutant of bli_thread_barrier: no worker waits for the others.
bli_thread_barrier_open(arr, x) == TRUE

\* The barrier lets the workers through once all of the group are at it.
bli_thread_barrier(arr, x) == arr = Workers(x)

IdleThreads == CHOOSE x \in ThreadInputs : TRUE

\* ------------------------------------------------------------------------
\* The eigenvalue drivers f2c_zheev_ and f2c_cheev_ (f2c_zheev.c,
\* f2c_cheev.c)
\* ------------------------------------------------------------------------

\* Largest order of the matrix.
MaxN == 2

\* Largest blocksize returned by f2c_ilaenv_.
MaxNB == 2

HeevRoutines == {"ZHEEV ", "CHEEV "}

HeevInputs ==
  [routine : HeevRoutines,
   jobz : {"N", "V", "v", "X"},
   uplo : {"U", "L", "l", "X"},
   n : (-1)..MaxN,
   lda : 0..(MaxN + 1),
   lwork : (-1)..(2 * MaxN),
   nb : 1..MaxNB]

\* Fortran character comparison without regard to case.
ToUpper(ch) ==
  CASE ch = "n" -> "N"
    [] ch = "v" -> "V"
    [] ch = "u" -> "U"
    [] ch = "l" -> "L"
    [] OTHER -> ch

bla_lsame_(ca, cb) == ToUpper(ca) = cb

bla_a_max(a, b) == IF a >= b THEN a ELSE b

f2c_ilaenv_(x) == x.nb

\* The largest power of two that is at most v, for v >= 1.
RECURSIVE Pow2Below(_)
Pow2Below(v) == IF v < 2 THEN 1 ELSE 2 * Pow2Below(v \div 2)

\* Conversion of a positive integer to a floating-point number with a
\* significand of the given number of bits, rounding to nearest, ties to
\* even. The integers here have at most 31 bits, so that a significand of
\* 31 bits or more holds every one of them.
ToFloat(v, bits) ==
  LET ulp == IF bits >= 31 THEN 1
             ELSE bla_a_max(1, Pow2Below(v) \div (2 ^ (bits - 1)))
      lo == (v \div ulp) * ulp
      hi == lo + ulp
  IN IF v - lo < hi - v THEN lo
     ELSE IF v - lo > hi - v THEN hi
     ELSE IF (lo \div ulp) % 2 = 0 THEN lo ELSE hi

\* The element type of WORK: bla_double in f2c_zheev_, bla_real in
\* f2c_cheev_.
heev_work_real(x, v) ==
  IF x.routine = "ZHEEV " THEN ToFloat(v, 53) ELSE ToFloat(v, 24)

\* The mutant of heev_test_args: LDA is tested before N.
heev_test_args_lda_first(x) ==
  LET wantz == bla_lsame_(x.jobz, "V")
      lower == bla_lsame_(x.uplo, "L")
  IN IF ~(wantz \/ bla_lsame_(x.jobz, "N")) THEN -1
     ELSE IF ~(lower \/ bla_lsame_(x.uplo, "U")) THEN -2
     ELSE IF x.lda < bla_a_max(1, x.n) THEN -5
     ELSE IF x.n < 0 THEN -3
     ELSE 0

\* The test of JOBZ, UPLO, N and LDA: the value of INFO after it.
heev_test_args(x) ==
  LET wantz == bla_lsame_(x.jobz, "V")
      lower == bla_lsame_(x.uplo, "L")
  IN IF ~(wantz \/ bla_lsame_(x.jobz, "N")) THEN -1
     ELSE IF ~(lower \/ bla_lsame_(x.uplo, "U")) THEN -2
     ELSE IF x.n < 0 THEN -3
     ELSE IF x.lda < bla_a_max(1, x.n) THEN -5
     ELSE 0

\* The optimal workspace is computed and stored, and LWORK is tested,
\* when the arguments before it are legal.
heev_workspace(x, st) ==
  IF st.info = 0
  THEN LET nb == f2c_ilaenv_(x)
           lwkopt == bla_a_max(1, (nb + 1) * x.n)
           lquery == x.lwork = -1
       IN [st EXCEPT !.lwkopt = lwkopt,
                     !.work1 = heev_work_real(x, lwkopt),
                     !.info = IF x.lwork < bla_a_max(1, 2 * x.n - 1) /\ ~lquery
                              THEN -8 ELSE 0]
  ELSE st

\* The error is reported, or the workspace query returns.
heev_report(x, st) ==
  IF st.info # 0
  THEN [st EXCEPT !.xerbla = Append(@, <<x.routine, -st.info>>), !.pc = "returned"]
  ELSE IF x.lwork = -1
       THEN [st EXCEPT !.pc = "returned"]
       ELSE [st EXCEPT !.pc = "quick"]

\* The quick returns for N = 0 and N = 1.
heev_quick(x, st) ==
  IF x.n = 0 THEN [st EXCEPT !.pc = "returned"]
  ELSE IF x.n = 1
       THEN [st EXCEPT !.access = @ \cup {<<"read", "A">>, <<"write", "W">>}
                                    \cup (IF bla_lsame_(x.jobz, "V")
                                          THEN {<<"write", "A">>} ELSE {}),
                       !.work1 = heev_work_real(x, 1),
                       !.pc = "returned"]
       ELSE [st EXCEPT !.pc = "compute"]

\* The reduction to tridiagonal form and the iteration: A is read and
\* overwritten, W receives the eigenvalues, and INFO tells how many
\* off-diagonal elements did not converge.
heev_compute(x, st, fail) ==
  [st EXCEPT !.access = @ \cup {<<"read", "A">>, <<"write", "A">>, <<"write", "W">>},
             !.info = fail,
             !.work1 = heev_work_real(x, st.lwkopt),
             !.pc = "returned"]

HeevEntry == [pc |-> "test", info |-> 0, lwkopt |-> 0, work1 |-> 0,
              xerbla |-> <<>>, access |-> {}]

IdleHeev == CHOOSE x \in HeevInputs : TRUE

\* ------------------------------------------------------------------------
\* bli_gemm_ex statement by statement, in a build with BLIS_ENABLE_GEMM_MD
\* and BLIS_ENABLE_GEMM_MD_EXTRA_MEM (bli_l3_oapi_ex.c)
\* ------------------------------------------------------------------------

Domains == {"real", "complex"}

Precs == {"single", "double"}

\* The calls of gemm the datatypes are varied over: a 2 x 2 product.
GemmBases ==
  {x \in Inputs : /\ x.op = "gemm"
                  /\ x.m = 2 /\ x.n = 2 /\ x.k = 1
                  /\ ~x.transa /\ ~x.transb
                  /\ x.seed = 0}

\* mdtrans: whether bli_gemm_md transposes the operation when it runs.
GemmInputs ==
  [base : GemmBases, dom_a : Domains, dom_b : Domains, dom_c : Domains,
   prec_ab : Precs, prec_c : Precs, comp_prec : Precs, mdtrans : BOOLEAN]

\* Storage domain and precision of the operands, and the computation
\* precision of C.
MdDt(x) ==
  [a |-> [dom |-> x.dom_a, prec |-> x.prec_ab],
   b |-> [dom |-> x.dom_b, prec |-> x.prec_ab],
   c |-> [dom |-> x.dom_c, prec |-> x.prec_c, comp_prec |-> x.comp_prec]]

SwapDt(dt) == [dt EXCEPT !.a = dt.b, !.b = dt.a]

\* The buffers of the caller and of the temporary (none yet).
MdMem(x) ==
  [a |-> CallerMem(x.base).a, b |-> CallerMem(x.base).b, c |-> CallerMem(x.base).c,
   none |-> CallerMem(x.base).none, ct |-> <<>>]

\* What an allocation holds before it is written.
Junk == <<3, 3>>

GemmEntry(x) ==
  [pc |-> "init", log |-> <<>>, l |-> NoLoc, dt |-> MdDt(x), mm |-> MdMem(x),
   im |-> "unset", cntx |-> "null", cntx_local |-> FALSE, use_ct |-> FALSE,
   ct |-> NoObj, betap |-> BLIS_ZERO, cp |-> NoObj, dbeta |-> <<>>, dout |-> <<>>,
   xbetas |-> <<>>]

Logged(st, name, to) == [st EXCEPT !.log = Append(st.log, name), !.pc = to]

\* Complex operands may use an induced method.
gemm_ind(x, st) ==
  [Logged(st, "ind", "cntx") EXCEPT
     !.im = IF x.dom_c = "complex" /\ x.dom_a = "complex" /\ x.dom_b = "complex"
            THEN "avail" ELSE "nat"]

\* The orientation step: the datatypes go with the operands.
gemm_orient_md(x, st) ==
  [Logged(st, "orient", "schemas") EXCEPT
     !.l = gemm_orient(st.l, x.base),
     !.dt = IF bli_cntx_dislikes_storage_of(st.l.c, x.base.prefrows)
            THEN SwapDt(st.dt) ELSE st.dt]

md_dt(d) == <<d.dom, d.prec>>

\* A storage datatype differs from that of C, or the computation
\* precision differs from the storage precision of C.
gemm_md_wanted(dt) ==
  \/ md_dt(dt.c) # md_dt(dt.a)
  \/ md_dt(dt.c) # md_dt(dt.b)
  \/ dt.c.comp_prec # dt.c.prec

\* The mixed-datatype policy: it may change the context and the objects.
bli_gemm_md(x, st) ==
  [st EXCEPT !.cntx_local = TRUE,
             !.l = IF x.mdtrans THEN TransposeOperation(st.l) ELSE st.l,
             !.dt = IF x.mdtrans THEN SwapDt(st.dt) ELSE st.dt]

\* The mutant of gemm_md_policy: the scalars are not attached after it.
gemm_md_policy_skips_attach(x, st) ==
  IF gemm_md_wanted(st.dt)
  THEN bli_gemm_md(x, Logged(st, "md", "ways"))
  ELSE [st EXCEPT !.pc = "ways"]

gemm_md_policy(x, st) ==
  IF gemm_md_wanted(st.dt)
  THEN bli_gemm_md(x, Logged(st, "md", "attach"))
  ELSE [st EXCEPT !.pc = "attach"]

bli_gemm_md_is_crr(dt) == dt.c.dom = "complex" /\ dt.a.dom = "real" /\ dt.b.dom = "real"

bli_gemm_md_is_ccr(dt) == dt.c.dom = "complex" /\ dt.a.dom = "complex" /\ dt.b.dom = "real"

bli_gemm_md_is_crc(dt) == dt.c.dom = "complex" /\ dt.a.dom = "real" /\ dt.b.dom = "complex"

is_ccr_mismatch(l, dt) == bli_gemm_md_is_ccr(dt) /\ ~bli_obj_is_col_stored(l.c)

is_crc_mismatch(l, dt) == bli_gemm_md_is_crc(dt) /\ ~bli_obj_is_row_stored(l.c)

\* The mutant of gemm_use_ct: the crr case computes into C.
gemm_use_ct_no_crr(l, dt) ==
  \/ dt.c.prec # dt.c.comp_prec
  \/ is_ccr_mismatch(l, dt)
  \/ is_crc_mismatch(l, dt)

gemm_use_ct(l, dt) ==
  \/ dt.c.prec # dt.c.comp_prec
  \/ bli_gemm_md_is_crr(dt)
  \/ is_ccr_mismatch(l, dt)
  \/ is_crc_mismatch(l, dt)

\* The temporary: conformal to the local C, with its strides unless the
\* case is a mismatched ccr or crc.
gemm_ct_create(l, dt) ==
  LET m  == l.c.m
      n  == l.c.n
      rs == IF is_ccr_mismatch(l, dt) THEN 1
            ELSE IF is_crc_mismatch(l, dt) THEN n ELSE l.c.rs
      cs == IF is_ccr_mismatch(l, dt) THEN m
            ELSE IF is_crc_mismatch(l, dt) THEN 1 ELSE l.c.cs
  IN [Obj("ct", m, n, FALSE, FALSE, FALSE, "gen", "dense") EXCEPT !.rs = rs, !.cs = cs]

\* The mutant of gemm_stage: the temporary is computed with the beta of C.
gemm_stage_keeps_beta(st) ==
  LET s == [Logged(st, "stage", "cntl") EXCEPT !.cp = st.l.c, !.betap = st.l.beta]
  IN IF gemm_use_ct(st.l, st.dt)
     THEN LET ct == gemm_ct_create(st.l, st.dt)
          IN [s EXCEPT !.use_ct = TRUE, !.ct = ct, !.cp = ct,
                       !.log = Append(s.log, "ct_create"),
                       !.mm = [s.mm EXCEPT !.ct = [off \in 0..(ct.m * ct.n - 1) |-> Junk]]]
     ELSE s

\* cp and betap, and the temporary when one is needed.
gemm_stage(st) ==
  LET s == [Logged(st, "stage", "cntl") EXCEPT !.cp = st.l.c, !.betap = st.l.beta]
  IN IF gemm_use_ct(st.l, st.dt)
     THEN LET ct == gemm_ct_create(st.l, st.dt)
          IN [s EXCEPT !.use_ct = TRUE, !.ct = ct, !.cp = ct, !.betap = BLIS_ZERO,
                       !.log = Append(s.log, "ct_create"),
                       !.mm = [s.mm EXCEPT !.ct = [off \in 0..(ct.m * ct.n - 1) |-> Junk]]]
     ELSE s

gemm_decorate(st) ==
  [Logged(st, "decorate", "free") EXCEPT
     !.mm = bli_l3_thread_decorator("gemm", st.l.alpha, st.l.a, st.l.b, st.betap, st.cp, st.mm),
     !.dbeta = Append(st.dbeta, Mul(st.betap, st.cp.scalar)),
     !.dout = Append(st.dout, st.cp.buf)]

\* y := x + beta * y
bli_xpbym(x, beta, y, mm) ==
  UpdateObj(mm, y,
    [ij \in Index(y) |->
       Add(Stored(mm, x, ij[1], ij[2]), Mul(beta, Stored(mm, y, ij[1], ij[2])))])

\* The temporary is accumulated into C with a copy of the scalar C
\* carries, and released; the local C is left as it is.
gemm_accumulate(st) ==
  IF st.use_ct
  THEN LET beta_local == st.l.c.scalar
       IN [st EXCEPT !.mm = [bli_xpbym(st.ct, beta_local, st.l.c, st.mm) EXCEPT !.ct = <<>>],
                     !.xbetas = Append(st.xbetas, beta_local),
                     !.log = st.log \o <<"xpbym", "ct_free">>,
                     !.pc = "done"]
  ELSE [st EXCEPT !.pc = "done"]

IdleGemm == CHOOSE x \in GemmInputs : TRUE

\* ------------------------------------------------------------------------
\* State
\* ------------------------------------------------------------------------

VARIABLES
  in,     \* the inputs of the call (never written)
  cur,    \* the objects the parameters of the running entry point point to
  loc,    \* the locals of the running entry point
  mem,    \* the buffers of A, B and C
  pc,     \* position in the running entry point
  kpc,    \* index of the gemmt call a composed operation is in
  log,    \* what has been invoked so far, in order
  calls,  \* the gemmt calls made by a composed operation
  betas,  \* the beta of every update of the output, in order
  pin,    \* the arguments of the running packm_struc_cxk
  ppc,    \* position in packm_struc_cxk
  pk,     \* the packed panel, the source elements read and the kernels run
  cin,    \* the operands and the blocksize tables a control tree is built for
  cpc,    \* position in the construction and the walk of the control tree
  tree,   \* the control tree
  visited, \* the blocks of the triangle solved so far, in order
  tin,    \* the thread group and the packed buffer of a pack node
  tpc,    \* position of every worker of the group in the pack node
  pbuf,   \* how many times every panel of the buffer has been written
  arrived, \* the workers that have reached the barrier
  treads, \* what every read of the buffer by a consumer found
  hin,    \* the arguments of the running eigenvalue driver
  hst,    \* its position, INFO, WORK(1), the calls of xerbla and the
          \* accesses to A and W
  gin,    \* the operands and datatypes of the gemm call followed statement
          \* by statement
  gst     \* its position, locals, buffers and the statements executed

dvars == <<in, cur, loc, mem, pc, kpc, log, calls, betas>>

pvars == <<pin, ppc, pk>>

cvars == <<cin, cpc, tree, visited>>

tvars == <<tin, tpc, pbuf, arrived, treads>>

hvars == <<hin, hst>>

gvars == <<gin, gst>>

vars == <<dvars, pvars, cvars, tvars, hvars, gvars>>

\* What the steps of one component leave alone.
notd == <<pvars, cvars, tvars, hvars, gvars>>

notp == <<dvars, cvars, tvars, hvars, gvars>>

notc == <<dvars, pvars, tvars, hvars, gvars>>

nott == <<dvars, pvars, cvars, hvars, gvars>>

noth == <<dvars, pvars, cvars, tvars, gvars>>

notg == <<dvars, pvars, cvars, tvars, hvars>>

OuterParams(x) ==
  Params(x.op, x.side, x.alpha, CallerA(x), CallerB(x), x.beta, CallerC(x), CallerRntm)

InitCall(x) ==
  /\ in = x
  /\ cur = OuterParams(x)
  /\ loc = NoLoc
  /\ mem = CallerMem(x)
  /\ pc = "check"
  /\ kpc = 0
  /\ log = <<>>
  /\ calls = <<>>
  /\ betas = <<>>

PackIdle ==
  /\ pin = IdlePack
  /\ ppc = "idle"
  /\ pk = NoPack(IdlePack)

DispatchIdle ==
  /\ in = IdleInput
  /\ cur = OuterParams(IdleInput)
  /\ loc = NoLoc
  /\ mem = CallerMem(IdleInput)
  /\ pc = "idle"
  /\ kpc = 0
  /\ log = <<>>
  /\ calls = <<>>
  /\ betas = <<>>

CntlIdle ==
  /\ cin = IdleCntl
  /\ cpc = "idle"
  /\ tree = NoTree
  /\ visited = <<>>

ThreadsIdle ==
  /\ tin = IdleThreads
  /\ tpc = [w \in Workers(IdleThreads) |-> "idle"]
  /\ pbuf = [it \in Panels(IdleThreads) |-> 0]
  /\ arrived = {}
  /\ treads = <<>>

HeevIdle ==
  /\ hin = IdleHeev
  /\ hst = [HeevEntry EXCEPT !.pc = "idle"]

GemmIdle ==
  /\ gin = IdleGemm
  /\ gst = [GemmEntry(IdleGemm) EXCEPT !.pc = "idle"]

Init == PackIdle /\ CntlIdle /\ ThreadsIdle /\ HeevIdle /\ GemmIdle /\ \E x \in Inputs : InitCall(x)

Check ==
  /\ pc = "check"
  /\ LET r == l3_check(cur, in)
     IN /\ log' = log \o r.log
        /\ pc' = IF r.abort THEN "done"
                 ELSE IF cur.op \in ComposedOps THEN "kcall" ELSE "trivial"
  /\ UNCHANGED <<in, cur, loc, mem, kpc, calls, betas>>
  /\ UNCHANGED notd

Trivial ==
  /\ pc = "trivial"
  /\ LET r == l3_trivial(cur, mem)
         t == Ret(in, kpc)
     IN /\ mem' = r.mem
        /\ log' = IF r.scaled THEN Append(log, <<"scalm", cur.op>>) ELSE log
        /\ betas' = IF r.scaled THEN Append(betas, TrivialBeta(cur)) ELSE betas
        /\ pc' = l3_after_trivial(r.status, cur.op, t.pc)
        /\ kpc' = IF r.status = "SUCCESS" THEN t.kpc ELSE kpc
  /\ UNCHANGED <<in, cur, loc, calls>>
  /\ UNCHANGED notd

Sup ==
  /\ pc = "sup"
  /\ mem' = bli_gemmsup(in.supok, cur.alpha, cur.a, cur.b, cur.beta, cur.c, mem)
  /\ log' = IF in.supok THEN Append(log, <<"sup", cur.op>>) ELSE log
  /\ betas' = IF in.supok THEN Append(betas, cur.beta) ELSE betas
  /\ pc' = IF in.supok THEN "done" ELSE "front"
  /\ UNCHANGED <<in, cur, loc, kpc, calls>>
  /\ UNCHANGED notd

FrontEnd ==
  /\ pc = "front"
  /\ LET r == Front(cur, in)
     IN /\ cur' = r.cur
        /\ loc' = r.loc
  /\ pc' = "cntl"
  /\ UNCHANGED <<in, mem, kpc, log, calls, betas>>
  /\ UNCHANGED notd

CntlCreate ==
  /\ pc = "cntl"
  /\ loc' = [loc EXCEPT !.cntl = l3_cntl_create(cur, loc)]
  /\ log' = Append(log, <<"cntl_create", cur.op>>)
  /\ pc' = "decor"
  /\ UNCHANGED <<in, cur, mem, kpc, calls, betas>>
  /\ UNCHANGED notd

Decorate ==
  /\ pc = "decor"
  /\ mem' = bli_l3_thread_decorator(loc.family, loc.alpha, loc.a, loc.b, loc.beta, loc.c, mem)
  /\ log' = Append(log, <<"decorate", cur.op>>)
  /\ betas' = Append(betas, Mul(loc.beta, loc.c.scalar))
  /\ pc' = "free"
  /\ UNCHANGED <<in, cur, loc, kpc, calls>>
  /\ UNCHANGED notd

CntlFree ==
  /\ pc = "free"
  /\ loc' = [loc EXCEPT !.cntl = "freed"]
  /\ log' = Append(log, <<"cntl_free", cur.op>>)
  /\ pc' = Ret(in, kpc).pc
  /\ kpc' = Ret(in, kpc).kpc
  /\ UNCHANGED <<in, cur, mem, calls, betas>>
  /\ UNCHANGED notd

\* A composed operation calls gemmt.
KCall ==
  /\ pc = "kcall"
  /\ LET n == IF kpc = 0 THEN 1 ELSE kpc
         g == GemmtCall(OuterParams(in), n)
     IN /\ cur' = g
        /\ calls' = Append(calls, g)
        /\ kpc' = n
  /\ loc' = NoLoc
  /\ pc' = "check"
  /\ UNCHANGED <<in, mem, log, betas>>
  /\ UNCHANGED notd

Setid ==
  /\ pc = "setid"
  /\ mem' = bli_setid(OuterParams(in).c, mem)
  /\ log' = Append(log, <<"setid", in.op>>)
  /\ pc' = "done"
  /\ UNCHANGED <<in, cur, loc, kpc, calls, betas>>
  /\ UNCHANGED notd

Next ==
  \/ Check
  \/ Trivial
  \/ Sup
  \/ FrontEnd
  \/ CntlCreate
  \/ Decorate
  \/ CntlFree
  \/ KCall
  \/ Setid

Spec == Init /\ [][Next]_vars

\* ------------------------------------------------------------------------
\* One call of packm_struc_cxk
\* ------------------------------------------------------------------------

InitPack ==
  /\ GemmIdle
  /\ DispatchIdle
  /\ CntlIdle
  /\ ThreadsIdle
  /\ HeevIdle
  /\ \E x \in PackInputs :
       /\ pin = x
       /\ ppc = "start"
       /\ pk = NoPack(x)

PackGeneral ==
  /\ ppc = "start"
  /\ bli_is_general(pin.strucc)
  /\ pk' = pack_general(pin, pk)
  /\ ppc' = "done"
  /\ UNCHANGED <<pin, notp>>

PackSanity ==
  /\ ppc = "start"
  /\ ~bli_is_general(pin.strucc)
  /\ LET e == bli_check_error_code("NOT_YET_IMPLEMENTED", ~diag_intersects_short_end(pin))
     IN /\ pk' = [pk EXCEPT !.log = @ \o e.log]
        /\ ppc' = IF e.abort THEN "failed" ELSE "p10"
  /\ UNCHANGED <<pin, notp>>

PackP10 ==
  /\ ppc = "p10"
  /\ pk' = pack_p10(pin, pk)
  /\ ppc' = "p11"
  /\ UNCHANGED <<pin, notp>>

PackP11 ==
  /\ ppc = "p11"
  /\ pk' = pack_p11(pin, pk)
  /\ ppc' = "p12"
  /\ UNCHANGED <<pin, notp>>

PackP12 ==
  /\ ppc = "p12"
  /\ pk' = pack_p12(pin, pk)
  /\ ppc' = "done"
  /\ UNCHANGED <<pin, notp>>

NextPack ==
  \/ PackGeneral
  \/ PackSanity
  \/ PackP10
  \/ PackP11
  \/ PackP12

SpecPack == InitPack /\ [][NextPack]_vars

\* ------------------------------------------------------------------------
\* One control tree of trsm: its construction, then the walk of the
\* partition of the triangle
\* ------------------------------------------------------------------------

InitCntl ==
  /\ GemmIdle
  /\ DispatchIdle
  /\ PackIdle
  /\ ThreadsIdle
  /\ HeevIdle
  /\ \E x \in CntlInputs :
       /\ cin = x
       /\ cpc = "init"
       /\ tree = NoTree
       /\ visited = <<>>

TrsmCntlInit ==
  /\ cpc = "init"
  /\ tree' = bli_trsm_cntl_init(CntlA(cin), CntlB(cin), cin)
  /\ cpc' = "walk"
  /\ UNCHANGED <<cin, visited, notc>>

TrsmVisit ==
  /\ cpc = "walk"
  /\ visited' = Append(visited,
                  BlockOrder(tree[TrianglePart(cin)].dir, cin.nblocks)[Len(visited) + 1])
  /\ cpc' = IF Len(visited) + 1 = cin.nblocks THEN "done" ELSE "walk"
  /\ UNCHANGED <<cin, tree, notc>>

NextCntl ==
  \/ TrsmCntlInit
  \/ TrsmVisit

SpecCntl == InitCntl /\ [][NextCntl]_vars

\* ------------------------------------------------------------------------
\* One pack node run by one thread group
\* ------------------------------------------------------------------------

InitThreads ==
  /\ GemmIdle
  /\ DispatchIdle
  /\ PackIdle
  /\ CntlIdle
  /\ HeevIdle
  /\ \E x \in ThreadInputs :
       /\ tin = x
       /\ tpc = [w \in Workers(x) |-> "pack"]
       /\ pbuf = [it \in Panels(x) |-> 0]
       /\ arrived = {}
       /\ treads = <<>>

\* A worker packs the next of its panels.
ThreadPack(w) ==
  /\ tpc[w] = "pack"
  /\ ToPack(w, tin, pbuf) # {}
  /\ LET it == CHOOSE i \in ToPack(w, tin, pbuf) : \A j \in ToPack(w, tin, pbuf) : i <= j
     IN pbuf' = [pbuf EXCEPT ![it] = @ + 1]
  /\ UNCHANGED <<tin, tpc, arrived, treads, nott>>

\* A worker has packed its panels and reaches the barrier.
ThreadArrive(w) ==
  /\ tpc[w] = "pack"
  /\ ToPack(w, tin, pbuf) = {}
  /\ tpc' = [tpc EXCEPT ![w] = "barrier"]
  /\ arrived' = arrived \cup {w}
  /\ UNCHANGED <<tin, pbuf, treads, nott>>

\* A worker leaves the barrier for the sub-node.
ThreadLeave(w) ==
  /\ tpc[w] = "barrier"
  /\ bli_thread_barrier(arrived, tin)
  /\ tpc' = [tpc EXCEPT ![w] = "consume"]
  /\ UNCHANGED <<tin, pbuf, arrived, treads, nott>>

\* A worker, in the sub-node, reads the packed buffer.
ThreadRead(w) ==
  /\ tpc[w] = "consume"
  /\ treads' = Append(treads, [tid |-> w, found |-> pbuf])
  /\ tpc' = [tpc EXCEPT ![w] = "done"]
  /\ UNCHANGED <<tin, pbuf, arrived, nott>>

NextThreads ==
  \E w \in Workers(tin) :
    \/ ThreadPack(w)
    \/ ThreadArrive(w)
    \/ ThreadLeave(w)
    \/ ThreadRead(w)

SpecThreads == InitThreads /\ [][NextThreads]_vars

\* ------------------------------------------------------------------------
\* One call of f2c_zheev_ or f2c_cheev_
\* ------------------------------------------------------------------------

InitHeev ==
  /\ GemmIdle
  /\ DispatchIdle
  /\ PackIdle
  /\ CntlIdle
  /\ ThreadsIdle
  /\ hin \in HeevInputs
  /\ hst = HeevEntry

HeevTest ==
  /\ hst.pc = "test"
  /\ hst' = [hst EXCEPT !.info = heev_test_args(hin), !.pc = "work"]
  /\ UNCHANGED <<hin, noth>>

HeevWorkspace ==
  /\ hst.pc = "work"
  /\ hst' = [heev_workspace(hin, hst) EXCEPT !.pc = "report"]
  /\ UNCHANGED <<hin, noth>>

HeevReport ==
  /\ hst.pc = "report"
  /\ hst' = heev_report(hin, hst)
  /\ UNCHANGED <<hin, noth>>

HeevQuick ==
  /\ hst.pc = "quick"
  /\ hst' = heev_quick(hin, hst)
  /\ UNCHANGED <<hin, noth>>

HeevCompute ==
  /\ hst.pc = "compute"
  /\ \E fail \in 0..hin.n : hst' = heev_compute(hin, hst, fail)
  /\ UNCHANGED <<hin, noth>>

NextHeev ==
  \/ HeevTest
  \/ HeevWorkspace
  \/ HeevReport
  \/ HeevQuick
  \/ HeevCompute

SpecHeev == InitHeev /\ [][NextHeev]_vars

\* ------------------------------------------------------------------------
\* One call of bli_gemm_ex, one statement at a time
\* ------------------------------------------------------------------------

InitGemm ==
  /\ DispatchIdle
  /\ PackIdle
  /\ CntlIdle
  /\ ThreadsIdle
  /\ HeevIdle
  /\ gin \in GemmInputs
  /\ gst = GemmEntry(gin)

GemmCaller == OuterParams(gin.base)

GemmInitOnce ==
  /\ gst.pc = "init"
  /\ gst' = Logged(gst, "init_once", "check")
  /\ UNCHANGED <<gin, notg>>

GemmCheck ==
  /\ gst.pc = "check"
  /\ LET r == l3_check(GemmCaller, gin.base)
     IN gst' = [gst EXCEPT !.log = gst.log \o [i \in 1..(Len(r.log) - 1) |-> r.log[i + 1][1]],
                           !.pc = IF r.abort THEN "done" ELSE "trivial"]
  /\ UNCHANGED <<gin, notg>>

GemmTrivial ==
  /\ gst.pc = "trivial"
  /\ LET r == bli_l3_return_early_if_trivial(GemmCaller.alpha, GemmCaller.a, GemmCaller.b, GemmCaller.beta, GemmCaller.c, gst.mm)
     IN gst' = [Logged(gst, "trivial", l3_after_trivial(r.status, "gemm", "done")) EXCEPT
                  !.mm = r.mem]
  /\ UNCHANGED <<gin, notg>>

GemmSup ==
  /\ gst.pc = "sup"
  /\ gst' = [Logged(gst, "sup", IF gin.base.supok THEN "done" ELSE "rntm") EXCEPT
               !.mm = bli_gemmsup(gin.base.supok, GemmCaller.alpha, GemmCaller.a, GemmCaller.b, GemmCaller.beta, GemmCaller.c, gst.mm)]
  /\ UNCHANGED <<gin, notg>>

GemmRntm ==
  /\ gst.pc = "rntm"
  /\ gst' = [Logged(gst, "rntm", "ind") EXCEPT !.l.rntm = [ways |-> "copied"]]
  /\ UNCHANGED <<gin, notg>>

GemmInd ==
  /\ gst.pc = "ind"
  /\ gst' = gemm_ind(gin, gst)
  /\ UNCHANGED <<gin, notg>>

GemmCntx ==
  /\ gst.pc = "cntx"
  /\ gst' = [Logged(gst, "cntx", "alias") EXCEPT !.cntx = gst.im]
  /\ UNCHANGED <<gin, notg>>

GemmAlias ==
  /\ gst.pc = "alias"
  /\ gst' = [Logged(gst, "alias", "orient") EXCEPT
               !.l = [Aliases(GemmCaller, GemmCaller.c, "gemm") EXCEPT !.rntm = gst.l.rntm]]
  /\ UNCHANGED <<gin, notg>>

GemmOrient ==
  /\ gst.pc = "orient"
  /\ gst' = gemm_orient_md(gin, gst)
  /\ UNCHANGED <<gin, notg>>

GemmSchemas ==
  /\ gst.pc = "schemas"
  /\ gst' = [Logged(gst, "schemas", "md") EXCEPT
               !.l.a = bli_obj_set_pack_schema("PACKED_ROW_PANELS", gst.l.a),
               !.l.b = bli_obj_set_pack_schema("PACKED_COL_PANELS", gst.l.b)]
  /\ UNCHANGED <<gin, notg>>

GemmMd ==
  /\ gst.pc = "md"
  /\ gst' = gemm_md_policy(gin, gst)
  /\ UNCHANGED <<gin, notg>>

GemmAttach ==
  /\ gst.pc = "attach"
  /\ gst' = [Logged(gst, "attach", "ways") EXCEPT !.l = gemm_attach(gst.l)]
  /\ UNCHANGED <<gin, notg>>

GemmWays ==
  /\ gst.pc = "ways"
  /\ gst' = [Logged(gst, "ways", "stage") EXCEPT !.l.rntm = LocalRntm(gst.l.rntm)]
  /\ UNCHANGED <<gin, notg>>

GemmStage ==
  /\ gst.pc = "stage"
  /\ gst' = gemm_stage(gst)
  /\ UNCHANGED <<gin, notg>>

GemmCntl ==
  /\ gst.pc = "cntl"
  /\ gst' = [Logged(gst, "cntl_create", "decor") EXCEPT
               !.l = [gst.l EXCEPT !.schema_a = gst.l.a.schema, !.schema_b = gst.l.b.schema,
                                   !.a = bli_obj_set_pack_schema("NOT_PACKED", gst.l.a),
                                   !.b = bli_obj_set_pack_schema("NOT_PACKED", gst.l.b),
                                   !.cntl = l3_cntl_create(GemmCaller, gst.l)]]
  /\ UNCHANGED <<gin, notg>>

GemmDecorate ==
  /\ gst.pc = "decor"
  /\ gst' = gemm_decorate(gst)
  /\ UNCHANGED <<gin, notg>>

GemmFree ==
  /\ gst.pc = "free"
  /\ gst' = [Logged(gst, "cntl_free", "accum") EXCEPT !.l.cntl = "freed"]
  /\ UNCHANGED <<gin, notg>>

GemmAccumulate ==
  /\ gst.pc = "accum"
  /\ gst' = gemm_accumulate(gst)
  /\ UNCHANGED <<gin, notg>>

NextGemm ==
  \/ GemmInitOnce
  \/ GemmCheck
  \/ GemmTrivial
  \/ GemmSup
  \/ GemmRntm
  \/ GemmInd
  \/ GemmCntx
  \/ GemmAlias
  \/ GemmOrient
  \/ GemmSchemas
  \/ GemmMd
  \/ GemmAttach
  \/ GemmWays
  \/ GemmStage
  \/ GemmCntl
  \/ GemmDecorate
  \/ GemmFree
  \/ GemmAccumulate

SpecGemm == InitGemm /\ [][NextGemm]_vars

\* ------------------------------------------------------------------------
\* A whole call of a simple entry point as a function of its parameters:
\* the memory it leaves, for operands that pass the checks.
\* ------------------------------------------------------------------------

RunSimple(c0, x, mm) ==
  LET t == l3_trivial(c0, mm)
  IN IF t.status = "SUCCESS" THEN t.mem
     ELSE IF c0.op = "gemm" /\ x.supok
          THEN bli_gemmsup(TRUE, c0.alpha, c0.a, c0.b, c0.beta, c0.c, mm)
     ELSE LET l == Front(c0, x).loc
          IN bli_l3_thread_decorator(l.family, l.alpha, l.a, l.b, l.beta, l.c, mm)

\* ------------------------------------------------------------------------
\* Vocabulary of the properties
\* ------------------------------------------------------------------------

HasEv(name) == \E i \in 1..Len(log) : log[i][1] = name

Valid == CheckPasses(in.op, in.side, CallerA(in), CallerB(in), CallerC(in))

Mem0 == CallerMem(in)

OutZero == bli_obj_has_zero_dim(OutObj(in))

\* alpha is zero or A or B has a zero extent, and C has none.
TrivialCase ==
  /\ in.op \in BetaOps
  /\ Valid
  /\ ~OutZero
  /\ \/ in.alpha = BLIS_ZERO
     \/ bli_obj_has_zero_dim(CallerA(in))
     \/ (CallerB(in) # NoObj /\ bli_obj_has_zero_dim(CallerB(in)))

NoProduct == ~HasEv("sup") /\ ~HasEv("cntl_create") /\ ~HasEv("decorate")

\* ------------------------------------------------------------------------
\* Properties
\* ------------------------------------------------------------------------

\* C1: when the output matrix (C, or B for trmm and trsm) has a zero
\* extent, no buffer is written, nothing is scaled by beta, no control tree
\* is built and the decorator is not entered, whatever alpha and the
\* extents of the other operands are.
C1_ZeroExtentUntouched ==
  OutZero =>
    /\ mem = Mem0
    /\ ~HasEv("scalm")
    /\ NoProduct
    /\ betas = <<>>
    /\ loc.cntl = "none"

C1_Witness ==
  /\ pc = "done" /\ in.op = "gemm" /\ Valid /\ OutZero
  /\ in.m = 0 /\ in.n > 0 /\ in.k > 0 /\ in.alpha # BLIS_ZERO
  /\ HasEv("init_once")

\* C2 as stated: in the trivial case of an operation that takes beta, every
\* element of (the stored triangle of) C equals beta times its input and
\* no product is computed.
C2_ScaledExactly ==
  (pc = "done" /\ TrivialCase) =>
    /\ \A ij \in Index(CallerC(in)) :
         InStored(CallerC(in), ij[1], ij[2]) =>
           Stored(mem, CallerC(in), ij[1], ij[2])
             = Mul(in.beta, Stored(Mem0, CallerC(in), ij[1], ij[2]))
    /\ NoProduct

\* C2 amended: in the trivial case every element of the stored triangle of
\* C equals beta times its input, except that herk and her2k leave the
\* imaginary part of every diagonal element zero; C is scaled by the
\* caller's beta once (any further scaling is by one) and no product is
\* computed.
C2_ScaledExceptDiag ==
  (pc = "done" /\ TrivialCase) =>
    /\ \A ij \in Index(CallerC(in)) :
         InStored(CallerC(in), ij[1], ij[2]) =>
           LET v == Mul(in.beta, Stored(Mem0, CallerC(in), ij[1], ij[2]))
           IN Stored(mem, CallerC(in), ij[1], ij[2])
                = IF in.op \in {"herk", "her2k"} /\ ij[1] = ij[2] THEN <<v[1], 0>> ELSE v
    /\ Len(betas) >= 1
    /\ betas[1] = in.beta
    /\ \A i \in 2..Len(betas) : betas[i] = BLIS_ONE
    /\ NoProduct

C2_Witness ==
  /\ pc = "done" /\ TrivialCase /\ HasEv("scalm")
  /\ in.op = "herk" /\ in.beta # BLIS_ONE
  /\ Stored(Mem0, CallerC(in), 0, 0)[2] # 0

\* C3: when herk or her2k returns, the imaginary part of every diagonal
\* element of C is zero, also when the gemmt calls took the trivial
\* short-circuit.
C3_DiagImagZero ==
  (pc = "done" /\ in.op \in {"herk", "her2k"} /\ ~HasEv("report")) =>
    \A i \in 0..(in.m - 1) : Stored(mem, CallerC(in), i, i)[2] = 0

C3_Witness ==
  /\ pc = "done" /\ in.op = "her2k" /\ HasEv("scalm") /\ ~HasEv("decorate")
  /\ in.m > 0
  /\ Stored(Mem0, CallerC(in), 0, 0)[2] # 0

\* C4: her2k and syr2k call gemmt twice, first with (alpha, A, B^H or B^T)
\* and the caller's beta, then with (conj(alpha) or alpha, B, A^H or A^T)
\* and beta one; herk and syrk call it once with the caller's beta.  The
\* updates of a C with nonzero extents therefore carry the caller's beta
\* once, and one afterwards.
C4_GemmtCalls ==
  (pc = "done" /\ in.op \in ComposedOps /\ ~HasEv("report")) =>
    LET A == CallerA(in)
        B == CallerB(in)
        H(o) == [o EXCEPT !.trans = ~o.trans, !.conj = ~o.conj]
        T(o) == [o EXCEPT !.trans = ~o.trans]
        G(al, a, b, be) == Params("gemmt", "L", al, a, b, be, CallerC(in), CallerRntm)
    IN /\ calls =
            IF in.op = "herk" THEN <<G(in.alpha, A, H(A), in.beta)>>
            ELSE IF in.op = "syrk" THEN <<G(in.alpha, A, T(A), in.beta)>>
            ELSE IF in.op = "her2k"
                 THEN <<G(in.alpha, A, H(B), in.beta), G(Conj(in.alpha), B, H(A), BLIS_ONE)>>
            ELSE <<G(in.alpha, A, T(B), in.beta), G(in.alpha, B, T(A), BLIS_ONE)>>
       /\ betas =
            IF OutZero THEN <<>>
            ELSE IF in.op \in {"her2k", "syr2k"} THEN <<in.beta, BLIS_ONE>>
            ELSE <<in.beta>>

C4_Witness ==
  /\ pc = "done" /\ in.op = "her2k" /\ Len(calls) = 2 /\ HasEv("decorate")
  /\ in.alpha[2] # 0 /\ in.beta # BLIS_ONE

\* C5: with error checking enabled, a failed argument check is reported
\* and the call ends there: no buffer is written, no control tree is built
\* and the decorator is not entered.  With error checking disabled the
\* check function is not invoked.
C5_CheckFailureNoEffect ==
  /\ (in.errchk /\ ~Valid /\ pc # "check") =>
       /\ pc = "done"
       /\ log = <<<<"init_once", in.op>>, <<"check", in.op>>, <<"report", in.op>>>>
       /\ mem = Mem0
       /\ loc = NoLoc
       /\ betas = <<>>
       /\ calls = <<>>
  /\ ~in.errchk => ~HasEv("check")

C5_Witness == pc = "done" /\ in.errchk /\ ~Valid /\ HasEv("report") /\ ~OutZero

\* C6: the objects the caller passed (the descriptors of A, B and C, alpha,
\* beta, the runtime) and the buffers other than the output are at every
\* point of the call what they were before it; the transformations act on
\* the locals.
C6_CallerStateIntact ==
  /\ IF calls = <<>>
     THEN cur = OuterParams(in)
     ELSE /\ cur.c = CallerC(in)
          /\ cur.rntm = CallerRntm
          /\ cur.a = (IF Len(calls) = 1 THEN CallerA(in) ELSE CallerB(in))
          /\ Len(calls) = 1 => (cur.alpha = in.alpha /\ cur.beta = in.beta)
  /\ \A b \in {"a", "b", "c"} \ {OutBuf(in)} : mem[b] = Mem0[b]

C6_Witness ==
  /\ pc = "done" /\ HasEv("decorate") /\ in.op = "gemm"
  /\ loc.a = bli_obj_induce_trans(CallerB(in))
  /\ loc.c.scalar = in.beta /\ in.beta # BLIS_ONE
  /\ loc.rntm # CallerRntm

\* C7 as stated: gemm on the transposes of A, B and C, in that order,
\* leaves the transpose of what gemm on A, B and C leaves.  C^T is the
\* transposed view of C's buffer, so the two buffers are compared.
C7_TransposeSameOrder ==
  (pc = "done" /\ in.op = "gemm" /\ Valid) =>
    LET TA == bli_obj_toggle_trans(CallerA(in))
        TB == bli_obj_toggle_trans(CallerB(in))
        TC == bli_obj_induce_trans(CallerC(in))
    IN CheckPasses("gemm", "L", TA, TB, TC) =>
         RunSimple(Params("gemm", "L", in.alpha, TA, TB, in.beta, TC, CallerRntm),
                   in, Mem0).c = mem.c

\* C7 amended: gemm on B^T, A^T and C^T leaves the transpose of what gemm
\* on A, B and C leaves.
C7_TransposeSwapped ==
  (pc = "done" /\ in.op = "gemm" /\ Valid) =>
    LET TA == bli_obj_toggle_trans(CallerA(in))
        TB == bli_obj_toggle_trans(CallerB(in))
        TC == bli_obj_induce_trans(CallerC(in))
    IN /\ CheckPasses("gemm", "L", TB, TA, TC)
       /\ RunSimple(Params("gemm", "L", in.alpha, TB, TA, in.beta, TC, CallerRntm),
                    in, Mem0).c = mem.c

C7_Witness ==
  /\ pc = "done" /\ in.op = "gemm" /\ Valid /\ HasEv("decorate")
  /\ in.m = 2 /\ in.n = 1 /\ in.k = 2
  /\ bli_cntx_dislikes_storage_of(CallerC(in), in.prefrows)

\* C8: for a right-side hemm, symm, trmm or trmm3 the native path and the
\* path that casts the right side to the left leave the same memory; a
\* right-side trsm leaves in B the X with X * tri(A) = alpha * B.
C8_SideCast ==
  /\ (pc = "done" /\ in.op \in {"hemm", "symm", "trmm", "trmm3"} /\ in.side = "R" /\ Valid) =>
       mem = RunSimple(OuterParams(in), [in EXCEPT !.disright = ~in.disright], Mem0)
  /\ (pc = "done" /\ in.op = "trsm" /\ in.side = "R" /\ Valid) =>
       \A ij \in Index(CallerB(in)) :
         DotTo(mem, CallerB(in), CallerA(in), ij[1], ij[2], in.n)
           = Mul(in.alpha, Stored(Mem0, CallerB(in), ij[1], ij[2]))

C8_Witness ==
  /\ pc = "done" /\ in.op = "trmm" /\ in.side = "R" /\ Valid /\ HasEv("decorate")
  /\ in.disright /\ in.m = 2 /\ in.n = 2 /\ in.transa
  /\ mem # Mem0

\* The columns of the panel the diagonal block takes, and those the panel
\* has.
DiagBlock(x) == diagoffc(x)..(diagoffc(x) + x.panel_dim - 1)

PanelRange(x) == 0..(x.panel_len - 1)

Crosses(x) ==
  /\ DiagBlock(x) \cap PanelRange(x) # {}
  /\ ~(DiagBlock(x) \subseteq PanelRange(x))

\* C9: packing a triangular, symmetric or Hermitian micro-panel signals
\* not-yet-implemented exactly when the diagonal block [d, d + panel_dim)
\* meets the range [0, panel_len) of the panel without lying inside it,
\* and when it does, the signal comes before any element is read or
\* packed: the panel is left as it was.
C9_SignalIffCrosses ==
  (~bli_is_general(pin.strucc) /\ ppc \notin {"idle", "start"}) =>
    /\ (ppc = "failed") <=> Crosses(pin)
    /\ (ppc = "failed") <=> (<<"report", "NOT_YET_IMPLEMENTED">> \in {pk.log[i] : i \in 1..Len(pk.log)})
    /\ Crosses(pin) =>
         /\ pk.pan = EmptyPanel(pin)
         /\ pk.reads = {}
         /\ pk.log = <<<<"report", "NOT_YET_IMPLEMENTED">>>>

C9_Witness ==
  /\ ppc = "failed" /\ bli_is_triangular(pin.strucc)
  /\ pin.panel_len - pin.panel_dim < diagoffc(pin) /\ diagoffc(pin) > 0
  /\ pk.pan = EmptyPanel(pin)

\* C10: in a packed triangular micro-panel every position outside the
\* diagonal block that lies in the unstored triangle (before the block
\* when the stored triangle is upper, after it when it is lower) holds a
\* zero written by the zero fill, not by a packing kernel (so kappa was not
\* applied), and the source element of that position was not read.
C10_UnstoredZeroFilled ==
  (ppc = "done" /\ bli_is_triangular(pin.strucc)) =>
    \A q \in PanelCells(pin) :
      ( /\ q[1] < pin.panel_dim
        /\ q[2] < pin.panel_len
        /\ q[2] \notin DiagBlock(pin)
        /\ IF bli_is_upper(pin.uploc)
           THEN q[2] < q[1] + diagoffc(pin)
           ELSE q[2] > q[1] + diagoffc(pin) ) =>
        /\ pk.pan[q] = PCell(BLIS_ZERO, "set0s", FALSE)
        /\ <<pin.panel_dim_off + q[1], pin.panel_len_off + q[2]>> \notin pk.reads

C10_Witness ==
  /\ ppc = "done" /\ bli_is_triangular(pin.strucc) /\ bli_is_upper(pin.uploc)
  /\ diagoffc(pin) > 0 /\ diagoffc(pin) + pin.panel_dim <= pin.panel_len
  /\ pin.kappa # BLIS_ONE
  /\ pk.pan[<<0, 0>>] = PCell(BLIS_ZERO, "set0s", FALSE)
  /\ pk.pan[<<0, diagoffc(pin)>>].by = "cxc"

\* C11: gemmt, and with it herk, syrk, her2k and syr2k, leaves every
\* element of C outside its stored triangle as it was on entry, at every
\* point of the call, on the trivial path and on the full one.
C11_OffTriangleUntouched ==
  in.op \in SquareCOps =>
    \A ij \in Index(CallerC(in)) :
      ~InStored(CallerC(in), ij[1], ij[2]) =>
        Stored(mem, CallerC(in), ij[1], ij[2]) = Stored(Mem0, CallerC(in), ij[1], ij[2])

C11_Witness ==
  /\ pc = "done" /\ in.op = "gemmt" /\ HasEv("decorate") /\ in.m = 2
  /\ bli_cntx_dislikes_storage_of(CallerC(in), in.prefrows)
  /\ mem.c # Mem0.c
  /\ \E ij \in Index(CallerC(in)) :
       /\ ~InStored(CallerC(in), ij[1], ij[2])
       /\ Stored(mem, CallerC(in), ij[1], ij[2]) # BLIS_ZERO

\* ------------------------------------------------------------------------
\* The control trees of trsm
\* ------------------------------------------------------------------------

\* The loop or the packing a node stands for.
Level(node) ==
  IF node.kind = "packm"
  THEN (IF node.var_func = "bli_l3_packb" THEN "packB" ELSE "packA")
  ELSE CASE node.var = "bli_trsm_blk_var2" -> "JC"
         [] node.var = "bli_trsm_blk_var3" -> "KC"
         [] node.var = "bli_trsm_blk_var1" -> "IC"
         [] node.var = "bli_trsm_xx_ker_var2" -> "JR"
         [] OTHER -> "IR"

SubsOf(t, n) == {t[n].subs[i].node : i \in 1..Len(t[n].subs)}

Roots(t) == {n \in DOMAIN t : \A q \in DOMAIN t : n \notin SubsOf(t, q)}

RECURSIVE Branches(_, _)
Branches(t, n) ==
  IF t[n].subs = <<>>
  THEN {<<Level(t[n])>>}
  ELSE UNION {{<<Level(t[n])>> \o b : b \in Branches(t, q)} : q \in SubsOf(t, n)}

TreeBuilt == cpc \in {"walk", "done"}

RootBranches == UNION {Branches(tree, r) : r \in Roots(tree)}

\* C12 as stated: on every branch from the root to a leaf the nodes are
\* the JC partition, the pack node of B, the KC partition, the IC
\* partition, a pack node of A, the JR partition and the IR partition, in
\* that order.
C12_PackBOutsideKC ==
  TreeBuilt =>
    /\ Cardinality(Roots(tree)) = 1
    /\ \A b \in RootBranches : b = <<"JC", "packB", "KC", "IC", "packA", "JR", "IR">>

\* C12: on every branch from the root to a leaf the nodes are the JC
\* partition, the KC partition, the pack node of B, the IC partition, a
\* pack node of A, the JR partition and the IR partition, in that order:
\* B is packed inside the KC loop.
C12_Nesting ==
  TreeBuilt =>
    /\ Cardinality(Roots(tree)) = 1
    /\ \A b \in RootBranches : b = <<"JC", "KC", "packB", "IC", "packA", "JR", "IR">>

C12_Witness ==
  /\ TreeBuilt
  /\ cin.a_tri
  /\ Cardinality(DOMAIN tree) = 10
  /\ Cardinality(SubsOf(tree, "part_ic")) = 2
  /\ "part_pc" \in SubsOf(tree, "part_jc")
  /\ "pack_b" \in SubsOf(tree, "part_pc")

PartNodes(t) == {n \in DOMAIN t : t[n].kind = "part"}

WellSized(node) ==
  /\ node.alg > 0
  /\ node.mult > 0
  /\ node.alg % node.mult = 0
  /\ node.max >= node.alg

\* The constraints between cache and register blocksizes of the other
\* dimension, which a context keeps unless they are relaxed.
McnrNcmr(x) ==
  /\ x.blksz["MC"].def % x.blksz["NR"].def = 0
  /\ x.blksz["NC"].def % x.blksz["MR"].def = 0

\* C13 as stated: with MC a multiple of MR, NC a multiple of NR, max >= def
\* and all blocksizes positive, every partition node of a tree built by
\* either constructor has an algorithmic blocksize that is a positive
\* multiple of its blocksize multiple, and a maximum that is not smaller.
C13_WellSizedAlways ==
  TreeBuilt => \A n \in PartNodes(tree) : WellSized(tree[n])

\* C13: the same holds for every tree of the left-side constructor, and
\* for every tree of the right-side constructor when in addition MC is a
\* multiple of NR and NC is a multiple of MR.
C13_WellSized ==
  (TreeBuilt /\ (cin.a_tri \/ McnrNcmr(cin))) =>
    \A n \in PartNodes(tree) : WellSized(tree[n])

C13_Witness ==
  /\ TreeBuilt
  /\ ~cin.a_tri
  /\ McnrNcmr(cin)
  /\ cin.blksz["MR"].def # cin.blksz["NR"].def
  /\ tree["part_jc"].mult = cin.blksz["MR"].def
  /\ tree["part_jc"].mult > 1
  /\ tree["part_ic"].max > tree["part_ic"].alg

\* The blocks whose solution the solution of block i is computed from:
\* substitution with a lower triangle on the left, or an upper triangle on
\* the right, uses the blocks before i; the other two cases use the blocks
\* after it.
DependsOn(x, i) ==
  IF x.a_tri = (x.uplo = "lower")
  THEN {j \in 0..(x.nblocks - 1) : j < i}
  ELSE {j \in 0..(x.nblocks - 1) : j > i}

SolvedBefore(p) == {visited[q] : q \in 1..(p - 1)}

\* C14: the left-side constructor gives the IC and KC partitions the
\* forward direction when A is lower and the backward direction when A is
\* upper, and the JC partition the forward direction; the right-side
\* constructor gives the JC and KC partitions the backward direction when
\* B is lower and the forward direction when B is upper, and the IC
\* partition the forward direction; and every block of the triangle is
\* solved after all the blocks it depends on.
C14_Direction ==
  TreeBuilt =>
    /\ cin.a_tri =>
         /\ tree["part_ic"].dir = (IF cin.uplo = "lower" THEN "FWD" ELSE "BWD")
         /\ tree["part_pc"].dir = tree["part_ic"].dir
         /\ tree["part_jc"].dir = "FWD"
    /\ ~cin.a_tri =>
         /\ tree["part_jc"].dir = (IF cin.uplo = "lower" THEN "BWD" ELSE "FWD")
         /\ tree["part_pc"].dir = tree["part_jc"].dir
         /\ tree["part_ic"].dir = "FWD"
    /\ \A p \in 1..Len(visited) : DependsOn(cin, visited[p]) \subseteq SolvedBefore(p)

C14_Witness ==
  /\ cpc = "done"
  /\ cin.a_tri
  /\ cin.uplo = "upper"
  /\ cin.nblocks = MaxBlocks
  /\ Len(visited) = cin.nblocks
  /\ visited[1] = cin.nblocks - 1
  /\ visited[Len(visited)] = 0

\* ------------------------------------------------------------------------
\* The lifetime of the control tree
\* ------------------------------------------------------------------------

\* The events of the entry point that is running, or that ran last: the
\* log from its bli_init_once on.
SegStart ==
  IF HasEv("init_once")
  THEN CHOOSE i \in 1..Len(log) :
         /\ log[i][1] = "init_once"
         /\ \A j \in (i + 1)..Len(log) : log[j][1] # "init_once"
  ELSE 1

SegAt(name) == {i \in SegStart..Len(log) : log[i][1] = name}

\* The parameters of that entry point.
SegParams == IF calls = <<>> THEN OuterParams(in) ELSE calls[Len(calls)]

\* Neither the trivial case nor, for gemm, the small path applies.
Declined(p) ==
  /\ ~bli_obj_has_zero_dim(IF p.op \in InPlaceOps THEN p.b ELSE p.c)
  /\ p.alpha # BLIS_ZERO
  /\ ~bli_obj_has_zero_dim(p.a)
  /\ ~bli_obj_has_zero_dim(p.b)
  /\ p.op = "gemm" => ~in.supok

Returned == pc \in {"done", "kcall", "setid"}

\* C15: an entry point creates a control tree at most once, and only when
\* neither the trivial case nor the small path of gemm has returned; it
\* frees the tree exactly once, after the thread decorator has returned;
\* and it never returns with a tree that was created and not freed.
C15_CntlLifetime ==
  /\ Cardinality(SegAt("cntl_create")) <= 1
  /\ Cardinality(SegAt("cntl_free")) <= 1
  /\ SegAt("cntl_create") # {} =>
       /\ Declined(SegParams)
       /\ SegAt("scalm") = {}
       /\ SegAt("sup") = {}
  /\ \A d \in SegAt("decorate") : \E c \in SegAt("cntl_create") : c < d
  /\ \A f \in SegAt("cntl_free") :
       /\ \E d \in SegAt("decorate") : d < f
       /\ \A d \in SegAt("decorate") : d < f
  /\ Returned =>
       /\ Cardinality(SegAt("cntl_free")) = Cardinality(SegAt("cntl_create"))
       /\ loc.cntl \in {"none", "freed"}

C15_Witness ==
  /\ pc = "done"
  /\ in.op = "her2k"
  /\ Len(calls) = 2
  /\ Cardinality({i \in 1..Len(log) : log[i][1] = "cntl_create"}) = 2
  /\ Cardinality({i \in 1..Len(log) : log[i][1] = "cntl_free"}) = 2
  /\ SegAt("cntl_free") # {}
  /\ loc.cntl = "freed"

\* ------------------------------------------------------------------------
\* The pack node and its thread group
\* ------------------------------------------------------------------------

Packed(buf) == \A it \in DOMAIN buf : buf[it] = 1

\* C16: every panel of the buffer is packed at most once by the group, and
\* exactly once by the time any worker is past the barrier; every read of
\* the buffer by a consumer finds it completely packed.
C16_PackOnceBeforeRead ==
  /\ \A it \in Panels(tin) : pbuf[it] <= 1
  /\ (\E w \in Workers(tin) : tpc[w] \in {"consume", "done"}) =>
       /\ Packed(pbuf)
       /\ arrived = Workers(tin)
  /\ \A i \in 1..Len(treads) : Packed(treads[i].found)

C16_Witness ==
  /\ tin.n_way = MaxWorkers
  /\ tin.panels = MaxPanels
  /\ Len(treads) = tin.n_way
  /\ \A w \in Workers(tin) : tpc[w] = "done"
  /\ Packed(pbuf)

\* ------------------------------------------------------------------------
\* The eigenvalue drivers
\* ------------------------------------------------------------------------

\* The position of the first illegal argument, 0 when there is none.
FirstIllegal(x) ==
  IF x.jobz \notin {"N", "n", "V", "v"} THEN 1
  ELSE IF x.uplo \notin {"U", "u", "L", "l"} THEN 2
  ELSE IF x.n < 0 THEN 3
  ELSE IF x.lda < 1 \/ x.lda < x.n THEN 5
  ELSE IF x.lwork # -1 /\ (x.lwork < 1 \/ x.lwork < 2 * x.n - 1) THEN 8
  ELSE 0

OptimalWork(x) == IF (x.nb + 1) * x.n > 1 THEN (x.nb + 1) * x.n ELSE 1

\* C17: when an argument is illegal, the driver returns with INFO = -i for
\* the first illegal argument i in the order JOBZ (1), UPLO (2), N (3),
\* LDA (5), LWORK (8), after one call of xerbla with i, and A and W are
\* neither read nor written; when the arguments before LWORK are legal and
\* LWORK = -1, it returns with INFO = 0, without a call of xerbla, with
\* the optimal size in WORK(1), and A and W are neither read nor written.
C17_ArgumentValidation ==
  /\ (FirstIllegal(hin) # 0 \/ hin.lwork = -1) => hst.access = {}
  /\ Len(hst.xerbla) <= 1
  /\ hst.pc = "returned" =>
       /\ FirstIllegal(hin) # 0 =>
            /\ hst.info = -FirstIllegal(hin)
            /\ hst.xerbla = <<<<hin.routine, FirstIllegal(hin)>>>>
       /\ (FirstIllegal(hin) = 0 /\ hin.lwork = -1) =>
            /\ hst.info = 0
            /\ hst.xerbla = <<>>
            /\ hst.work1 = OptimalWork(hin)

C17_Witness ==
  /\ hst.pc = "returned"
  /\ hin.routine = "CHEEV "
  /\ hin.jobz = "v"
  /\ hin.uplo = "X"
  /\ hin.n = -1
  /\ hin.lda = 0
  /\ hin.lwork = -1
  /\ hst.info = -2
  /\ Len(hst.xerbla) = 1

C17_WitnessQuery ==
  /\ hst.pc = "returned"
  /\ FirstIllegal(hin) = 0
  /\ hin.lwork = -1
  /\ hin.n = MaxN
  /\ hst.work1 = (hin.nb + 1) * hin.n

\* ------------------------------------------------------------------------
\* The regions of a structured panel
\* ------------------------------------------------------------------------

Structured == ~bli_is_general(pin.strucc)

\* The columns of the panel an invocation writes, and those it packs from
\* the source.
ColsWritten(k) == k.j0..(k.j0 + k.len_max - 1)

ColsPacked(k) == k.j0..(k.j0 + k.len - 1)

KIdx == 1..Len(pk.kcalls)

RECURSIVE SumLenMax(_)
SumLenMax(n) == IF n = 0 THEN 0 ELSE pk.kcalls[n].len_max + SumLenMax(n - 1)

\* C18: when a structured panel has been packed, every column of the
\* packed panel in [0, panel_len_max) is written by exactly one kernel
\* invocation, every source column in [0, panel_len) belongs to exactly
\* one region, only the last region is padded, by panel_len_max -
\* panel_len columns, and the len_max values add up to panel_len_max.
C18_RegionsPartition ==
  (ppc = "done" /\ Structured) =>
    /\ Len(pk.kcalls) \in 1..3
    /\ \A j \in 0..(pin.panel_len_max - 1) :
         Cardinality({i \in KIdx : j \in ColsWritten(pk.kcalls[i])}) = 1
    /\ \A j \in 0..(pin.panel_len - 1) :
         Cardinality({i \in KIdx : j \in ColsPacked(pk.kcalls[i])}) = 1
    /\ \A i \in KIdx : ColsWritten(pk.kcalls[i]) \subseteq 0..(pin.panel_len_max - 1)
    /\ \A i \in KIdx :
         /\ i < Len(pk.kcalls) => pk.kcalls[i].len_max = pk.kcalls[i].len
         /\ i = Len(pk.kcalls) =>
              pk.kcalls[i].j0 + pk.kcalls[i].len_max = pin.panel_len_max
    /\ SumLenMax(Len(pk.kcalls)) = pin.panel_len_max

C18_Witness ==
  /\ ppc = "done"
  /\ bli_is_hermitian(pin.strucc)
  /\ Len(pk.kcalls) = 3
  /\ pin.panel_len_max > pin.panel_len
  /\ pk.kcalls[3].len_max > pk.kcalls[3].len
  /\ pk.kcalls[2].ker = "cxc"

C18_WitnessP10Last ==
  /\ ppc = "done"
  /\ Structured
  /\ Len(pk.kcalls) = 1
  /\ diagoffc(pin) >= pin.panel_len
  /\ pin.panel_len_max > pin.panel_len
  /\ pk.kcalls[1].len_max = pin.panel_len_max

DiagCalls == {i \in KIdx : pk.kcalls[i].ker = "cxc"}

\* C19: the diagonal kernel runs at most once for a panel, and exactly
\* when the panel is structured and 0 <= d and d + panel_dim <= panel_len;
\* it starts at column d of the source and of the packed panel, packs
\* panel_dim columns, and is given the padding panel_len_max - panel_len
\* exactly when d + panel_dim = panel_len. Only the diagonal kernel is
\* given the invert-diagonal flag, and only cells it wrote are marked
\* inverted.
C19_DiagonalKernel ==
  /\ Cardinality(DiagCalls) <= 1
  /\ \A q \in PanelCells(pin) : pk.pan[q].inv => pk.pan[q].by = "cxc"
  /\ \A i \in KIdx : pk.kcalls[i].ker # "cxc" => ~pk.kcalls[i].invdiag
  /\ ppc = "done" =>
       /\ (DiagCalls # {}) <=>
            (Structured /\ 0 <= diagoffc(pin)
                        /\ diagoffc(pin) + pin.panel_dim <= pin.panel_len)
       /\ \A i \in DiagCalls :
            LET k == pk.kcalls[i]
            IN /\ k.j0 = diagoffc(pin)
               /\ k.c = CPtr(0, diagoffc(pin))
               /\ k.len = pin.panel_dim
               /\ k.conjc = pin.conjc
               /\ k.invdiag = pin.invdiag
               /\ k.len_max - k.len =
                    (IF diagoffc(pin) + pin.panel_dim = pin.panel_len
                     THEN pin.panel_len_max - pin.panel_len ELSE 0)

C19_Witness ==
  /\ ppc = "done"
  /\ bli_is_triangular(pin.strucc)
  /\ pin.invdiag
  /\ diagoffc(pin) > 0
  /\ diagoffc(pin) + pin.panel_dim < pin.panel_len
  /\ pin.panel_len_max > pin.panel_len
  /\ Len(pk.kcalls) = 3
  /\ pk.kcalls[2].ker = "cxc"
  /\ pk.kcalls[2].len_max = pin.panel_dim
  /\ pk.pan[<<0, diagoffc(pin)>>].inv

C19_WitnessGeneral ==
  /\ ppc = "done"
  /\ bli_is_general(pin.strucc)
  /\ pin.invdiag
  /\ DiagCalls = {}

\* The position in the source matrix of the element of the panel in row
\* ii and column j, and the position it is the reflection of.
Direct(x, ii, j) == <<x.panel_dim_off + ii, x.panel_len_off + j>>

Reflected(g) == <<g[2], g[1]>>

\* Stored positions: on or below the diagonal for a lower matrix, on or
\* above it for an upper one.
InStoredTriangle(x, g) == IF bli_is_upper(x.uploc) THEN g[2] >= g[1] ELSE g[2] <= g[1]

InDiagBlock(x, g) ==
  /\ g[1] \in x.panel_dim_off..(x.panel_dim_off + x.panel_dim - 1)
  /\ g[2] \in x.panel_dim_off..(x.panel_dim_off + x.panel_dim - 1)

\* A region before the diagonal block of an upper matrix, or after the
\* diagonal block of a lower one.
InUnstored(x, k) ==
  IF bli_is_upper(x.uploc) THEN k.j0 + k.len <= diagoffc(x)
  ELSE k.j0 >= diagoffc(x) + x.panel_dim

\* C20: in a symmetric or Hermitian panel, a region in the unstored
\* triangle is packed from the reflected positions, with the conjugation
\* toggled exactly when the matrix is Hermitian; a region in the stored
\* triangle is packed from its own positions with the conjugation of the
\* caller; and every source element read is in the stored triangle or in
\* the diagonal block.
C20_ReflectedRegions ==
  (pin.strucc \in {"symm", "herm"}) =>
    /\ \A i \in KIdx :
         LET k == pk.kcalls[i]
         IN k.ker = "cxk" =>
              /\ \A ii \in 0..(pin.panel_dim - 1), jj \in 0..(k.len - 1) :
                   /\ SrcAt(pin, k.c, ii, jj) =
                        (IF InUnstored(pin, k)
                         THEN Reflected(Direct(pin, ii, k.j0 + jj))
                         ELSE Direct(pin, ii, k.j0 + jj))
                   /\ pk.pan[<<ii, k.j0 + jj>>].val =
                        Mul(pin.kappa, CondConj(k.conjc, PSrc(SrcAt(pin, k.c, ii, jj))))
              /\ k.conjc = (IF InUnstored(pin, k) /\ bli_is_hermitian(pin.strucc)
                            THEN ~pin.conjc ELSE pin.conjc)
    /\ \A g \in pk.reads : InStoredTriangle(pin, g) \/ InDiagBlock(pin, g)

C20_Witness ==
  /\ ppc = "done"
  /\ bli_is_hermitian(pin.strucc)
  /\ bli_is_lower(pin.uploc)
  /\ Len(pk.kcalls) = 3
  /\ pk.kcalls[1].conjc = pin.conjc
  /\ pk.kcalls[3].conjc # pin.conjc
  /\ pk.kcalls[3].c.sw
  /\ ~pk.kcalls[1].c.sw
  /\ \E g \in pk.reads : g[1] # g[2] /\ ~InDiagBlock(pin, g)

\* ------------------------------------------------------------------------
\* The pack nodes and the threading of the control trees of trsm
\* ------------------------------------------------------------------------

PackNodes(t) == {n \in DOMAIN t : t[n].kind = "packm"}

\* The pack node of the block that holds the diagonal of the triangle, and
\* the pack nodes of the triangular operand.
DiagPack(x) == IF x.a_tri THEN "pack_a_trsm" ELSE "pack_b"

TriPacks(x) == IF x.a_tri THEN {"pack_a_trsm", "pack_a_gemm"} ELSE {"pack_b"}

\* C25 as stated: in a tree of either side, the pack node of the block
\* with the diagonal of the triangle inverts the diagonal exactly when
\* pre-inversion is enabled, and no other pack node does.
C25_InvertFollowsConfig ==
  TreeBuilt =>
    \A n \in PackNodes(tree) :
      tree[n].does_invert_diag = (n = DiagPack(cin) /\ cin.preinversion)

\* The same for the trees of the left side alone.
C25_InvertFollowsConfigLeft ==
  (TreeBuilt /\ cin.a_tri) =>
    \A n \in PackNodes(tree) :
      tree[n].does_invert_diag = (n = DiagPack(cin) /\ cin.preinversion)

C25_Witness ==
  /\ TreeBuilt
  /\ ~cin.a_tri
  /\ ~cin.preinversion
  /\ tree["pack_b"].does_invert_diag
  /\ ~tree["pack_a_trsm"].does_invert_diag

\* A pack node iterates in reverse over an operand of the given triangle.
Reverses(node, uplo) ==
  \/ (uplo = "upper" /\ node.rev_iter_if_upper)
  \/ (uplo = "lower" /\ node.rev_iter_if_lower)

\* C28: the pack nodes of the triangular operand iterate in reverse
\* exactly when the partition of the triangle runs backward: in a left
\* tree both pack nodes of A reverse if upper and not if lower, in a right
\* tree the pack node of B reverses if lower and not if upper; the pack
\* node of the general operand has neither flag.
C28_ReverseIteration ==
  TreeBuilt =>
    \A n \in PackNodes(tree) :
      IF n \in TriPacks(cin)
      THEN /\ Reverses(tree[n], cin.uplo) <=> (tree[TrianglePart(cin)].dir = "BWD")
           /\ tree[n].rev_iter_if_upper = cin.a_tri
           /\ tree[n].rev_iter_if_lower = ~cin.a_tri
      ELSE /\ ~tree[n].rev_iter_if_upper
           /\ ~tree[n].rev_iter_if_lower

C28_Witness ==
  /\ TreeBuilt
  /\ ~cin.a_tri
  /\ cin.uplo = "lower"
  /\ tree["part_jc"].dir = "BWD"
  /\ tree["pack_b"].rev_iter_if_lower
  /\ ~tree["pack_a_trsm"].rev_iter_if_lower

\* Largest number of ways of one threading dimension.
MaxWays == 2

ThreadDims == {"NC", "KC", "MC", "NR", "MR"}

WaysOf == [ThreadDims -> 1..MaxWays]

RECURSIVE ProdOver(_, _)
ProdOver(w, ds) ==
  IF ds = {} THEN 1
  ELSE LET d == CHOOSE e \in ds : TRUE IN w[d] * ProdOver(w, ds \ {d})

\* The threading masks of the edges of every branch from node n down.
RECURSIVE MaskBranches(_, _)
MaskBranches(t, n) ==
  IF t[n].subs = <<>>
  THEN {<<>>}
  ELSE UNION {{<<t[n].subs[i].mask>> \o b : b \in MaskBranches(t, t[n].subs[i].node)} :
                i \in 1..Len(t[n].subs)}

RootMaskBranches == UNION {MaskBranches(tree, r) : r \in Roots(tree)}

RECURSIVE ProdAlong(_, _)
ProdAlong(w, b) ==
  IF b = <<>> THEN 1 ELSE ProdOver(w, Head(b)) * ProdAlong(w, Tail(b))

\* C29: on every branch from the root to a leaf each threading dimension
\* is in the mask of at most one edge, and for every choice of the ways
\* of the five dimensions the factors applied along the branch multiply
\* to at most the product of all five.
C29_ThreadedOnce ==
  TreeBuilt =>
    \A b \in RootMaskBranches :
      /\ \A d \in ThreadDims : Cardinality({i \in 1..Len(b) : d \in b[i]}) <= 1
      /\ \A i \in 1..Len(b) : b[i] \subseteq ThreadDims
      /\ \A w \in WaysOf : ProdAlong(w, b) <= ProdOver(w, ThreadDims)

C29_Witness ==
  /\ TreeBuilt
  /\ cin.a_tri
  /\ Cardinality(RootMaskBranches) = 2
  /\ \E b \in RootMaskBranches :
       /\ \A d \in ThreadDims : \E i \in 1..Len(b) : d \in b[i]
       /\ \E w \in WaysOf : ProdAlong(w, b) = MaxWays * MaxWays * MaxWays * MaxWays * MaxWays
  /\ \E b \in RootMaskBranches : \A i \in 1..Len(b) : "MR" \notin b[i]

\* ------------------------------------------------------------------------
\* The steps of gemm after the small path
\* ------------------------------------------------------------------------

\* The locals of a call of gemm that has passed the front-end.
GemmLocals == in.op = "gemm" /\ loc.family = "gemm"

\* alpha * op(A) * op(B) + beta * C on the caller's operands.
GemmResult == L3Product(in.alpha, CallerA(in), CallerB(in), in.beta, CallerC(in), Mem0)

\* What the scalar attachment leaves whichever operand carries alpha.
AttachedRest ==
  /\ loc.c.scalar = in.beta
  /\ loc.alpha = BLIS_ONE
  /\ loc.beta = BLIS_ONE
  /\ (pc \in {"free", "done"}) => (mem = GemmResult /\ betas = <<in.beta>>)

\* C22 as stated: in gemm alpha is carried by the operand packed as A and
\* beta by C, the decorator is handed unit alpha and beta, and the result
\* holds the caller's alpha and beta applied once each.
C22_AlphaOnPackedA ==
  GemmLocals => (loc.a.scalar = in.alpha /\ loc.b.scalar = BLIS_ONE /\ AttachedRest)

\* C22 amended: in gemm alpha is carried by the operand packed as B and
\* beta by C, the decorator is handed unit alpha and beta, and the result
\* holds the caller's alpha and beta applied once each.
C22_AlphaOnPackedB ==
  GemmLocals => (loc.b.scalar = in.alpha /\ loc.a.scalar = BLIS_ONE /\ AttachedRest)

C22_Witness ==
  /\ GemmLocals
  /\ pc = "done"
  /\ HasEv("decorate")
  /\ in.alpha = <<1, 1>>
  /\ in.beta = <<2, 0>>
  /\ in.m = 2 /\ in.n = 2 /\ in.k = 2
  /\ mem.c # Mem0.c

\* An operand without the scalar it carries.
Bare(o) == [o EXCEPT !.scalar = BLIS_ONE]

\* The locals of a call of gemm or gemmt that has passed the front-end.
OrientedLocals == cur.op \in {"gemm", "gemmt"} /\ loc.family = cur.op

\* C27: in gemm and gemmt, when the context dislikes the storage of C the
\* local A is the transposed B, the local B the transposed A and the
\* local C the transposed C, and otherwise the locals are the caller's
\* operands; either way the operation on the locals writes the values the
\* operation on the caller's operands writes, and a call leaves
\* alpha * op(A) * op(B) + beta * C in the stored part of C.
C27_Orientation ==
  OrientedLocals =>
    /\ IF bli_cntx_dislikes_storage_of(cur.c, in.prefrows)
       THEN /\ Bare(loc.a) = bli_obj_induce_trans(cur.b)
            /\ Bare(loc.b) = bli_obj_induce_trans(cur.a)
            /\ Bare(loc.c) = bli_obj_induce_trans(cur.c)
       ELSE /\ Bare(loc.a) = cur.a
            /\ Bare(loc.b) = cur.b
            /\ Bare(loc.c) = cur.c
    /\ (pc \in {"cntl", "decor"}) =>
         L3Product(loc.alpha, loc.a, loc.b, loc.beta, loc.c, mem)
           = L3Product(cur.alpha, cur.a, cur.b, cur.beta, cur.c, mem)
    /\ (pc = "done" /\ in.op = cur.op) =>
         mem = L3Product(in.alpha, CallerA(in), CallerB(in), in.beta, CallerC(in), Mem0)

C27_Witness ==
  /\ OrientedLocals
  /\ in.op = "gemmt"
  /\ pc = "done"
  /\ bli_cntx_dislikes_storage_of(cur.c, in.prefrows)
  /\ loc.a = bli_obj_induce_trans(cur.b)
  /\ loc.c.uplo # cur.c.uplo
  /\ in.m = 2 /\ in.k = 2 /\ in.transa /\ ~in.transb
  /\ mem.c # Mem0.c

C27_WitnessGemm ==
  /\ OrientedLocals
  /\ in.op = "gemm"
  /\ pc = "done"
  /\ bli_cntx_dislikes_storage_of(cur.c, in.prefrows)
  /\ in.m = 2 /\ in.n = 1 /\ in.k = 2 /\ ~in.crow
  /\ loc.c.m = 1 /\ loc.c.n = 2
  /\ mem.c # Mem0.c

\* C23: only gemm attempts the small path, after the trivial check has
\* declined and before any local alias or control tree exists; when the
\* small path succeeds the call returns with no control tree built and
\* the decorator not entered; when it fails nothing is reported and the
\* call goes on to the conventional path; C is never updated by both.
C23_SmallPath ==
  /\ (pc = "sup") =>
       /\ cur.op = "gemm" /\ in.op = "gemm"
       /\ l3_trivial(cur, Mem0).status = "FAILURE"
       /\ mem = Mem0
       /\ loc = NoLoc
       /\ ~HasEv("cntl_create")
  /\ HasEv("sup") =>
       /\ in.op = "gemm" /\ in.supok
       /\ pc = "done"
       /\ loc = NoLoc
       /\ ~HasEv("cntl_create") /\ ~HasEv("decorate")
       /\ mem = GemmResult
       /\ betas = <<in.beta>>
  /\ (in.op = "gemm" /\ ~in.supok /\ l3_trivial(cur, Mem0).status = "FAILURE"
        /\ pc \in {"front", "cntl", "decor", "free", "done"} /\ ~HasEv("report")) =>
       /\ ~HasEv("sup")
       /\ (pc = "done") => (HasEv("decorate") /\ mem = GemmResult /\ betas = <<in.beta>>)
  /\ (in.op = "gemm" /\ pc \in {"front", "cntl", "decor", "free"}) => ~HasEv("report")
  /\ ~(HasEv("sup") /\ HasEv("decorate"))

C23_Witness ==
  /\ in.op = "gemm" /\ in.supok
  /\ pc = "done"
  /\ HasEv("sup")
  /\ in.m = 2 /\ in.n = 2 /\ in.k = 2
  /\ mem.c # Mem0.c

C23_WitnessFailure ==
  /\ in.op = "gemm" /\ ~in.supok
  /\ pc = "done"
  /\ HasEv("decorate")
  /\ ~HasEv("report")
  /\ mem.c # Mem0.c

\* ------------------------------------------------------------------------
\* The triangular operations
\* ------------------------------------------------------------------------

TriOps == {"trmm", "trmm3", "trsm"}

\* The locals of a call of a triangular operation that has passed the
\* front-end.
TriLocals == in.op \in TriOps /\ loc.family \in {"trmm", "trsm"}

\* The triangular one of the local operands.
TriLocal == IF loc.a.struc = "tri" THEN loc.a ELSE loc.b

\* C24: in trmm, trmm3 and trsm the triangular local operand carries no
\* transpose flag from the front-end on, hence when the control tree is
\* built; its conjugation flag is the caller's, and its upper/lower tag is
\* the caller's swapped once for a transposed A and once for a cast to
\* the other side.  In trsm the side is left and A is the triangle for
\* both caller sides, and the tree requested is the left-side one.
C24_TransNormalized ==
  TriLocals =>
    /\ (loc.a.struc = "tri") # (loc.b.struc = "tri")
    /\ ~TriLocal.trans
    /\ TriLocal.conj = CallerA(in).conj
    /\ TriLocal.uplo = IF in.transa # (loc.side # in.side)
                       THEN ToggleUplo(in.uplo) ELSE in.uplo
    /\ (in.op = "trsm") =>
         /\ loc.side = "L"
         /\ loc.a.struc = "tri"
         /\ loc.cntl \in {"none", "trsm_l", "freed"}
         /\ HasEv("cntl_create") => loc.cntl \in {"trsm_l", "freed"}

C24_Witness ==
  /\ TriLocals
  /\ in.op = "trsm"
  /\ in.side = "R"
  /\ in.transa
  /\ in.conja
  /\ in.uplo = "lower"
  /\ pc = "decor"
  /\ loc.cntl = "trsm_l"
  /\ TriLocal.uplo = "lower"
  /\ TriLocal.conj

C24_WitnessTrmm ==
  /\ TriLocals
  /\ in.op = "trmm"
  /\ in.side = "R"
  /\ in.transa
  /\ loc.side = "R"
  /\ loc.b.struc = "tri"
  /\ loc.b.uplo # in.uplo
  /\ pc = "decor"

\* The trivial case of trmm and trsm: B has no zero extent and alpha is
\* zero or A has a zero extent.
TrivialInPlace ==
  /\ in.op \in InPlaceOps
  /\ Valid
  /\ ~bli_obj_has_zero_dim(CallerB(in))
  /\ (in.alpha = BLIS_ZERO \/ bli_obj_has_zero_dim(CallerA(in)))

\* C30: trmm and trsm handle the trivial case with B as the output and
\* zero as beta: every element of B is left an exact zero by one scaling
\* by zero, and the call returns with no locals, no control tree and the
\* decorator not entered; no call of trmm or trsm ever writes A.
C30_TrivialInPlace ==
  /\ (pc = "done" /\ TrivialInPlace) =>
       /\ \A ij \in Index(CallerB(in)) :
            Stored(mem, CallerB(in), ij[1], ij[2]) = BLIS_ZERO
       /\ betas = <<BLIS_ZERO>>
       /\ Cardinality({i \in 1..Len(log) : log[i][1] = "scalm"}) = 1
       /\ NoProduct
       /\ loc = NoLoc
  /\ (in.op \in InPlaceOps) => mem.a = Mem0.a

C30_Witness ==
  /\ pc = "done"
  /\ TrivialInPlace
  /\ in.op = "trsm"
  /\ in.m = 2 /\ in.n = 2
  /\ \E ij \in Index(CallerB(in)) : Stored(Mem0, CallerB(in), ij[1], ij[2]) # BLIS_ZERO
  /\ HasEv("scalm")

C30_WitnessFull ==
  /\ pc = "done"
  /\ in.op = "trmm"
  /\ HasEv("decorate")
  /\ mem.b # Mem0.b
  /\ mem.a = Mem0.a

\* ------------------------------------------------------------------------
\* The statements of bli_gemm_ex with mixed datatypes
\* ------------------------------------------------------------------------

GHas(name) == \E i \in 1..Len(gst.log) : gst.log[i] = name

GCount(name) == Cardinality({i \in 1..Len(gst.log) : gst.log[i] = name})

GemmMem0 == MdMem(gin)

\* The conditions of the temporary on the operands the caller passed.
CallerUsesCt ==
  \/ gin.prec_c # gin.comp_prec
  \/ bli_gemm_md_is_crr(MdDt(gin))
  \/ (bli_gemm_md_is_ccr(MdDt(gin)) /\ ~bli_obj_is_col_stored(CallerC(gin.base)))
  \/ (bli_gemm_md_is_crc(MdDt(gin)) /\ ~bli_obj_is_row_stored(CallerC(gin.base)))

AllComplex == gin.dom_a = "complex" /\ gin.dom_b = "complex" /\ gin.dom_c = "complex"

\* C21: once gemm has staged its output, a temporary is in use exactly
\* when the storage precision of C differs from its computation
\* precision, or the domains are crr, or ccr with C not stored by columns,
\* or crc with C not stored by rows.  With a temporary the decorator runs
\* once with beta zero and the temporary as output and leaves the buffer
\* of C as it was, the temporary is then accumulated into C once with the
\* beta of the caller, and it is created once and released once.  Without
\* one nothing is created, accumulated or released and the decorator
\* updates C with the beta of the caller.
C21_Staging ==
  /\ GHas("stage") =>
       /\ gst.use_ct <=> CallerUsesCt
       /\ gst.use_ct <=> GHas("ct_create")
       /\ GCount("ct_create") <= 1
  /\ ~GHas("stage") => (~gst.use_ct /\ ~GHas("ct_create"))
  /\ gst.use_ct =>
       /\ gst.ct.m = gst.l.c.m /\ gst.ct.n = gst.l.c.n
       /\ GHas("decorate") => (gst.dbeta = <<BLIS_ZERO>> /\ gst.dout = <<"ct">>)
       /\ (gst.pc \in {"cntl", "decor", "free", "accum"}) =>
            /\ gst.mm.c = GemmMem0.c
            /\ ~GHas("xpbym") /\ ~GHas("ct_free")
            /\ gst.mm.ct # <<>>
       /\ (gst.pc = "done") =>
            /\ GCount("decorate") = 1
            /\ GCount("xpbym") = 1 /\ GCount("ct_free") = 1
            /\ gst.xbetas = <<gin.base.beta>>
            /\ gst.mm.ct = <<>>
            /\ AllComplex =>
                 gst.mm.c = L3Product(gin.base.alpha, CallerA(gin.base), CallerB(gin.base),
                                      gin.base.beta, CallerC(gin.base), GemmMem0).c
  /\ ~gst.use_ct =>
       /\ ~GHas("xpbym") /\ ~GHas("ct_free")
       /\ gst.ct = NoObj /\ gst.mm.ct = <<>> /\ gst.xbetas = <<>>
       /\ GHas("decorate") => (gst.dbeta = <<gin.base.beta>> /\ gst.dout = <<"c">>)

C21_Witness ==
  /\ gst.pc = "done"
  /\ gst.use_ct
  /\ gin.prec_c = gin.comp_prec
  /\ bli_gemm_md_is_ccr(MdDt(gin))
  /\ gin.base.crow
  /\ gin.base.beta # BLIS_ONE
  /\ GHas("xpbym")
  /\ gst.mm.c # GemmMem0.c

C21_WitnessNone ==
  /\ gst.pc = "done"
  /\ ~gst.use_ct
  /\ GHas("md")
  /\ bli_gemm_md_is_crc(MdDt(gin))
  /\ GHas("decorate")
  /\ gst.mm.c # GemmMem0.c

\* The place of a step in a list of steps (0 when it is not in it).
StepIdx(order, name) ==
  IF \E i \in 1..Len(order) : order[i] = name
  THEN CHOOSE i \in 1..Len(order) : order[i] = name
  ELSE 0

\* The steps of the list that have run have run once each and in the
\* order of the list, and a call that reaches the decorator has run all
\* of them but the optional ones.
RunsInOrder(order, optional) ==
  /\ \A i, j \in 1..Len(gst.log) :
       (i < j /\ StepIdx(order, gst.log[i]) > 0 /\ StepIdx(order, gst.log[j]) > 0) =>
         StepIdx(order, gst.log[i]) < StepIdx(order, gst.log[j])
  /\ (gst.pc = "done" /\ GHas("decorate")) =>
       \A k \in 1..Len(order) : (order[k] \notin optional) => GHas(order[k])

\* C26 as stated: gemm runs one-time init, argument validation, trivial
\* check, small path, induced-method selection, context resolution,
\* aliasing, orientation, schema assignment, scalar attachment,
\* mixed-datatype staging, parallelism shaping, control-tree construction,
\* decorator and release, in this order.
C26_ListedOrder ==
  RunsInOrder(<<"init_once", "check", "trivial", "sup", "ind", "cntx", "alias", "orient",
                "schemas", "attach", "stage", "ways", "cntl_create", "decorate",
                "cntl_free">>, {"check"})

\* C26 amended: gemm runs one-time init, argument validation, trivial
\* check, small path, induced-method selection, context resolution,
\* aliasing, orientation, schema assignment, mixed-datatype policy, scalar
\* attachment, parallelism shaping, mixed-datatype staging of the
\* temporary, control-tree construction, decorator and release, in this
\* order.
C26_CodeOrder ==
  RunsInOrder(<<"init_once", "check", "trivial", "sup", "ind", "cntx", "alias", "orient",
                "schemas", "md", "attach", "ways", "stage", "cntl_create", "decorate",
                "cntl_free">>, {"check", "md"})

C26_Witness ==
  /\ gst.pc = "done"
  /\ GHas("check") /\ GHas("md") /\ GHas("decorate") /\ GHas("ct_free")
  /\ Len(gst.log) = 20

============================================================================
